---- MODULE Spec2Model ----
(***************************************************************************)
(* Verification model of the loxops review pipeline:                       *)
(*   ClaudeService (generateReview, parseClaudeResponse, the extractor,    *)
(*   the sanitizer, the structural parser, the fallback chain and the      *)
(*   priority filter) and GitHubService.createReviewWithComments.          *)
(*                                                                         *)
(* Text is a sequence of atoms.  Punctuation, quotes, backslashes,         *)
(* backticks, white space and digits are single characters; a lower-case   *)
(* word ("summary", "path", "json", "x", ...) is one atom standing for a   *)
(* run of letters [a-z]+.  Every regular expression of the source is       *)
(* written out as a matcher over such sequences.  Input texts never put a  *)
(* backslash right before a word atom other than "n".                      *)
(***************************************************************************)
EXTENDS Naturals, Integers, Sequences, FiniteSets, TLC

\* ------------------------------------------------------------ characters
BS == "\\"
QT == "\""
\* the backtick (written ^: the module's strings cannot hold a backtick)
BT == "^"
NL == "\n"
SP == " "
FF == "\f"

Fence == <<BT, BT, BT>>
EscNl == <<BS, "n">>
EscFence == <<BS, BT, BS, BT, BS, BT>>

\* \s of the regular expressions
WS == {SP, NL, "\t", "\r"}

\* [a-z] of the regular expressions: the word atoms
Lower == {"summary", "comments", "path", "line", "body", "priority", "json",
          "critical", "high", "medium", "low", "overview", "unknown",
          "null", "lang", "nl", "n", "x", "y", "z"}

\* \d of the regular expressions
Digit == {"0", "1", "2", "3", "4", "5", "6", "7", "8", "9"}

DigitChar(n) ==
    CASE n = 0 -> "0" [] n = 1 -> "1" [] n = 2 -> "2" [] n = 3 -> "3"
      [] n = 4 -> "4" [] n = 5 -> "5" [] n = 6 -> "6" [] n = 7 -> "7"
      [] n = 8 -> "8" [] n = 9 -> "9"

\* Number.parseInt(digits, 10) on a non-empty run of digits
RECURSIVE ParseIntAcc(_, _, _)
ParseIntAcc(s, i, acc) ==
    LET DigitVal(d) ==
            CASE d = "0" -> 0 [] d = "1" -> 1 [] d = "2" -> 2 [] d = "3" -> 3
              [] d = "4" -> 4 [] d = "5" -> 5 [] d = "6" -> 6 [] d = "7" -> 7
              [] d = "8" -> 8 [] d = "9" -> 9
    IN IF i > Len(s) THEN acc
       ELSE ParseIntAcc(s, i + 1, acc * 10 + DigitVal(s[i]))

ParseInt(s) == ParseIntAcc(s, 1, 0)

\* `${n}` for a non-negative integer: its decimal digits
RECURSIVE NumToStr(_)
NumToStr(n) ==
    IF n < 10 THEN <<DigitChar(n)>>
    ELSE NumToStr(n \div 10) \o <<DigitChar(n % 10)>>

\* ------------------------------------------------------- string helpers
StartsAt(s, i, pat) ==
    /\ i >= 1
    /\ i + Len(pat) - 1 <= Len(s)
    /\ SubSeq(s, i, i + Len(pat) - 1) = pat

\* the first index >= i that holds no white space (Len(s)+1 when none)
RECURSIVE SkipWs(_, _)
SkipWs(s, i) ==
    IF i <= Len(s) /\ s[i] \in WS THEN SkipWs(s, i + 1) ELSE i

\* the first index >= i that holds no atom of set cls
RECURSIVE SkipClass(_, _, _)
SkipClass(s, i, cls) ==
    IF i <= Len(s) /\ s[i] \in cls THEN SkipClass(s, i + 1, cls) ELSE i

\* the first index >= i after a maximal run of the two-atom sequence pat
RECURSIVE SkipPairs(_, _, _)
SkipPairs(s, i, pat) ==
    IF StartsAt(s, i, pat) THEN SkipPairs(s, i + Len(pat), pat) ELSE i

\* the least and the greatest element of a non-empty set of integers
Min(S) == CHOOSE m \in S : \A x \in S : m <= x
Max(S) == CHOOSE m \in S : \A x \in S : m >= x

\* the search of a regular expression: of the indices at which the anchored
\* pattern matches, the leftmost, 0 when there is none
Leftmost(at) == IF at = {} THEN 0 ELSE Min(at)

\* String.prototype.replace(/pat/g, rep) for a literal pattern: from i on, the
\* text up to the next match, the replacement, and the same after the match
RECURSIVE ReplaceFrom(_, _, _, _)
ReplaceFrom(s, i, pat, rep) ==
    LET Step(j) ==
            IF j = 0 THEN SubSeq(s, i, Len(s))
            ELSE SubSeq(s, i, j - 1) \o rep \o ReplaceFrom(s, j + Len(pat), pat, rep)
    IN Step(Leftmost({j \in i..Len(s) : StartsAt(s, j, pat)}))

ReplaceAll(s, pat, rep) == ReplaceFrom(s, 1, pat, rep)

\* String.prototype.trim
RECURSIVE TrimEnd(_)
TrimEnd(s) ==
    IF Len(s) > 0 /\ s[Len(s)] \in WS THEN TrimEnd(SubSeq(s, 1, Len(s) - 1))
    ELSE s

Trim(s) == LET t == TrimEnd(s) IN SubSeq(t, SkipWs(t, 1), Len(t))

\* String.prototype.includes for a needle that is one atom of the text
Includes(s, needle) == \E i \in 1..Len(s) : s[i] = needle

\* ------------------------------------------------------------ sanitizer
NoMatch == [ok |-> FALSE, lang |-> <<>>, next |-> 0]

\* /```\s*(\\n)+\s*([a-z]+)\s*(\\n)+\s*/ anchored at i
MatchFenceNlLang(s, i) ==
    IF ~StartsAt(s, i, Fence) THEN NoMatch
    ELSE LET a == SkipWs(s, i + 3)
             b == SkipPairs(s, a, EscNl)
             c == SkipWs(s, b)
             d == SkipClass(s, c, Lower)
             e == SkipWs(s, d)
             f == SkipPairs(s, e, EscNl)
             g == SkipWs(s, f)
         IN IF b > a /\ d > c /\ f > e
            THEN [ok |-> TRUE, lang |-> SubSeq(s, c, d - 1), next |-> g]
            ELSE NoMatch

\* /```\s*([a-z]+)\s*\\n/ anchored at i
MatchFenceLang(s, i) ==
    IF ~StartsAt(s, i, Fence) THEN NoMatch
    ELSE LET c == SkipWs(s, i + 3)
             d == SkipClass(s, c, Lower)
             e == SkipWs(s, d)
         IN IF d > c /\ StartsAt(s, e, EscNl)
            THEN [ok |-> TRUE, lang |-> SubSeq(s, c, d - 1), next |-> e + 2]
            ELSE NoMatch

\* .replace(<pattern A>, "```${lang}\\n")
RECURSIVE NormalizeFenceNlLang(_, _)
NormalizeFenceNlLang(s, i) ==
    LET Replace(j, m) ==
            IF j = 0 THEN SubSeq(s, i, Len(s))
            ELSE SubSeq(s, i, j - 1) \o Fence \o m.lang \o EscNl
                 \o NormalizeFenceNlLang(s, m.next)
        Step(j) == Replace(j, MatchFenceNlLang(s, j))
    IN Step(Leftmost({j \in i..Len(s) : MatchFenceNlLang(s, j).ok}))

\* .replace(<simpler version>, "```${lang}\\n")
RECURSIVE NormalizeFenceLang(_, _)
NormalizeFenceLang(s, i) ==
    LET Replace(j, m) ==
            IF j = 0 THEN SubSeq(s, i, Len(s))
            ELSE SubSeq(s, i, j - 1) \o Fence \o m.lang \o EscNl
                 \o NormalizeFenceLang(s, m.next)
        Step(j) == Replace(j, MatchFenceLang(s, j))
    IN Step(Leftmost({j \in i..Len(s) : MatchFenceLang(s, j).ok}))

\* the literal text the Pattern B template puts between the fence and the
\* code start: <span class="math-inline">{lang}</span>{nl2}
SpanText == <<"<span class=", QT, "math-inline", QT, ">", "{", "lang", "}",
              "</span>", "{", "nl", "2", "}">>

\* /([:.}])(\\n)([a-z]+)(\\n)(\s*[^`\s{"}])/ anchored at i; lang is the code start
MatchLangOnEscapedLine(s, i) ==
    IF ~(i <= Len(s) /\ s[i] \in {":", ".", "}"} /\ StartsAt(s, i + 1, EscNl))
    THEN NoMatch
    ELSE LET c == i + 3
             d == SkipClass(s, c, Lower)
             e == d + 2
             f == SkipWs(s, e)
         IN IF d > c /\ StartsAt(s, d, EscNl) /\ f <= Len(s)
               /\ s[f] \notin ({BT, QT, "{", "}"} \cup WS)
            THEN [ok |-> TRUE, lang |-> SubSeq(s, e, f), next |-> f + 1]
            ELSE NoMatch

\* .replace(<pattern B>, template)
RECURSIVE FenceLangOnEscapedLine(_, _)
FenceLangOnEscapedLine(s, i) ==
    LET Replace(j, m) ==
            IF j = 0 THEN SubSeq(s, i, Len(s))
            ELSE SubSeq(s, i, j) \o EscNl \o Fence \o SpanText \o m.lang
                 \o FenceLangOnEscapedLine(s, m.next)
        Step(j) == Replace(j, MatchLangOnEscapedLine(s, j))
    IN Step(Leftmost({j \in i..Len(s) : MatchLangOnEscapedLine(s, j).ok}))

sanitizeJsonString(jsonString) ==
    LET s1 == ReplaceAll(jsonString, <<BS, BS>>, <<BS>>)
        s2 == ReplaceAll(s1, EscFence, Fence)
        s3 == ReplaceAll(s2, <<BS, BT>>, <<BT>>)
        s4 == NormalizeFenceNlLang(s3, 1)
        s5 == NormalizeFenceLang(s4, 1)
    IN FenceLangOnEscapedLine(s5, 1)

\* ----------------------------------------------------------- JSON.parse
\* Decoded values: [t |-> "str", s], [t |-> "num", n], [t |-> "lit", s]
\* (null, true, false), [t |-> "arr", a], [t |-> "obj", o] with o a sequence of
\* [k, v] members in source order, and Undefined for an absent property.
Undefined == [t |-> "undefined"]
JsonLiterals == {"null", "true", "false"}
Fail == [ok |-> FALSE, val |-> Undefined, pos |-> 0]
Ok(v, p) == [ok |-> TRUE, val |-> v, pos |-> p]

\* the characters of a string literal from i on (after the opening quote)
RECURSIVE ParseChars(_, _, _)
ParseChars(s, i, acc) ==
    IF i > Len(s) THEN Fail
    ELSE IF s[i] = QT THEN Ok([t |-> "str", s |-> acc], i + 1)
    ELSE IF s[i] = BS
         THEN IF i + 1 > Len(s) THEN Fail
              ELSE IF s[i + 1] = QT THEN ParseChars(s, i + 2, Append(acc, QT))
              ELSE IF s[i + 1] = BS THEN ParseChars(s, i + 2, Append(acc, BS))
              ELSE IF s[i + 1] = "/" THEN ParseChars(s, i + 2, Append(acc, "/"))
              ELSE IF s[i + 1] = "n" THEN ParseChars(s, i + 2, Append(acc, NL))
              ELSE Fail
    ELSE IF s[i] \in {NL, "\t", "\r", FF} THEN Fail
    ELSE ParseChars(s, i + 1, Append(acc, s[i]))

ParseNumber(s, i) ==
    LET Digits(j) ==
            IF j = i \/ (s[i] = "0" /\ j > i + 1) THEN Fail
            ELSE Ok([t |-> "num", n |-> ParseInt(SubSeq(s, i, j - 1))], j)
    IN Digits(SkipClass(s, i, Digit))

RECURSIVE ParseValue(_, _), ParseElements(_, _, _), ParseMembers(_, _, _)
ParseValue(s, i0) ==
    LET Array(j) ==
            IF j <= Len(s) /\ s[j] = "]" THEN Ok([t |-> "arr", a |-> <<>>], j + 1)
            ELSE ParseElements(s, j, <<>>)
        Object(j) ==
            IF j <= Len(s) /\ s[j] = "}" THEN Ok([t |-> "obj", o |-> <<>>], j + 1)
            ELSE ParseMembers(s, j, <<>>)
        Value(i) ==
            IF i > Len(s) THEN Fail
            ELSE IF s[i] = QT THEN ParseChars(s, i + 1, <<>>)
            ELSE IF s[i] \in Digit THEN ParseNumber(s, i)
            ELSE IF s[i] \in JsonLiterals THEN Ok([t |-> "lit", s |-> s[i]], i + 1)
            ELSE IF s[i] = "[" THEN Array(SkipWs(s, i + 1))
            ELSE IF s[i] = "{" THEN Object(SkipWs(s, i + 1))
            ELSE Fail
    IN Value(SkipWs(s, i0))

ParseElements(s, i, acc) ==
    LET More(j, acc2) ==
            IF j > Len(s) THEN Fail
            ELSE IF s[j] = "," THEN ParseElements(s, j + 1, acc2)
            ELSE IF s[j] = "]" THEN Ok([t |-> "arr", a |-> acc2], j + 1)
            ELSE Fail
        Element(r) == IF ~r.ok THEN Fail ELSE More(SkipWs(s, r.pos), Append(acc, r.val))
    IN Element(ParseValue(s, i))

ParseMembers(s, i0, acc) ==
    LET More(j, acc2) ==
            IF j > Len(s) THEN Fail
            ELSE IF s[j] = "," THEN ParseMembers(s, j + 1, acc2)
            ELSE IF s[j] = "}" THEN Ok([t |-> "obj", o |-> acc2], j + 1)
            ELSE Fail
        Member(k, r) ==
            IF ~r.ok THEN Fail
            ELSE More(SkipWs(s, r.pos), Append(acc, [k |-> k.val.s, v |-> r.val]))
        Colon(k, c) ==
            IF c > Len(s) \/ s[c] # ":" THEN Fail ELSE Member(k, ParseValue(s, c + 1))
        Name(k) == IF ~k.ok THEN Fail ELSE Colon(k, SkipWs(s, k.pos))
        Start(i) ==
            IF i > Len(s) \/ s[i] # QT THEN Fail ELSE Name(ParseChars(s, i + 1, <<>>))
    IN Start(SkipWs(s, i0))

\* JSON.parse(text): ok = FALSE stands for the SyntaxError it throws
JsonParse(text) ==
    LET Whole(r) == IF r.ok /\ SkipWs(text, r.pos) > Len(text) THEN r ELSE Fail
    IN Whole(ParseValue(text, 1))

\* obj[key] of a decoded object: the last member of that name wins
RECURSIVE GetFrom(_, _, _)
GetFrom(o, i, key) ==
    IF i = 0 THEN Undefined
    ELSE IF o[i].k = <<key>> THEN o[i].v
    ELSE GetFrom(o, i - 1, key)

Get(v, key) == IF v.t = "obj" THEN GetFrom(v.o, Len(v.o), key) ELSE Undefined

\* JavaScript truthiness of a decoded value
Truthy(v) ==
    CASE v.t = "undefined" -> FALSE
      [] v.t = "lit" -> v.s = "true"
      [] v.t = "str" -> Len(v.s) > 0
      [] v.t = "num" -> v.n # 0
      [] OTHER -> TRUE

\* Object.keys(obj): each name once, in first-insertion order
RECURSIVE KeysFrom(_, _, _)
KeysFrom(o, i, acc) ==
    IF i > Len(o) THEN acc
    ELSE IF \E j \in 1..Len(acc) : acc[j] = o[i].k THEN KeysFrom(o, i + 1, acc)
    ELSE KeysFrom(o, i + 1, Append(acc, o[i].k))

ObjectKeys(v) == IF v.t = "obj" THEN KeysFrom(v.o, 1, <<>>) ELSE <<>>

\* ------------------------------------------------- errors and reviews
\* a thrown value: an Error instance with its message, or some other value
Err(msg) == [isError |-> TRUE, message |-> msg]
NonError == [isError |-> FALSE, message |-> "non-error value"]
NoErr == [isError |-> FALSE, message |-> ""]

\* the outcome of a call: a returned value or a thrown one
Return(v) == [ok |-> TRUE, val |-> v, err |-> NoErr]
Throw(e) == [ok |-> FALSE, val |-> Undefined, err |-> e]

Str(chars) == [t |-> "str", s |-> chars]

\* `${v}` of a template literal
ToStr(v) ==
    CASE v.t = "str" -> v.s
      [] v.t = "num" -> NumToStr(v.n)
      [] v.t = "lit" -> <<v.s>>
      [] v.t = "undefined" -> <<"undefined">>
      [] OTHER -> <<"[object Object]">>

ExtractErrorMessage == "Could not extract JSON review structure from Claude's response"
SyntaxErrorMessage == "SyntaxError: Unexpected token in JSON"
TypeErrorMessage == "TypeError: Cannot read properties of null"
InvalidStructureMessage == "Invalid review structure."
AlternativeFailedMessage == "Alternative parsing failed to extract any useful data."
ParsingFailedSummary ==
    "Code review response parsing failed completely. The response format might be severely incorrect."
GenerationErrorPrefix == "Error generating code review: "
UnknownErrorSummary == "Unknown error generating code review."
FallbackSummary == "Fallback: Could not parse summary."

\* ---------------------------------------------------------- extractor
\* the first index >= i holding "}" that white space and a fence follow
LazyCloseBrace(s, i) ==
    Leftmost({j \in i..Len(s) : s[j] = "}" /\ StartsAt(s, SkipWs(s, j + 1), Fence)})

\* /```(?:json)?\s*(\{[\s\S]*?\})\s*```/ anchored at i: group 1 as [from, to]
MatchFencedObject(s, i) ==
    IF ~StartsAt(s, i, Fence) THEN <<0, 0>>
    ELSE LET Group(b, e) == IF e > 0 THEN <<b, e>> ELSE <<0, 0>>
             Open(b) ==
                 Group(b, IF b <= Len(s) /\ s[b] = "{" THEN LazyCloseBrace(s, b + 1)
                          ELSE 0)
         IN Open(SkipWs(s, IF i + 3 <= Len(s) /\ s[i + 3] = "json" THEN i + 4
                           ELSE i + 3))

\* the leftmost match of the fenced pattern from i on
FindFencedObject(s, i) ==
    LET Matched(j) == IF j = 0 THEN <<0, 0>> ELSE MatchFencedObject(s, j)
    IN Matched(Leftmost({j \in i..Len(s) : MatchFencedObject(s, j)[1] > 0}))

\* the first index >= i that holds ch, 0 when there is none
IndexOf(s, ch, i) == Leftmost({j \in i..Len(s) : s[j] = ch})

\* the last index <= i that holds ch, 0 when there is none
LastIndexOf(s, ch, i) ==
    LET Last(at) == IF at = {} THEN 0 ELSE Max(at)
    IN Last({j \in 1..i : s[j] = ch})

\* /(\{[\s\S]*\})/: from the first "{" to the last "}"
FindBraceSpan(s) ==
    LET Span(b, e) == IF b > 0 /\ e > b THEN <<b, e>> ELSE <<0, 0>>
    IN Span(IndexOf(s, "{", 1), LastIndexOf(s, "}", Len(s)))

extractJsonFromResponse(responseText) ==
    LET Extract(jsonMatch) ==
            IF jsonMatch[1] = 0 THEN Throw(Err(ExtractErrorMessage))
            ELSE Return(Trim(SubSeq(responseText, jsonMatch[1], jsonMatch[2])))
        Either(fenced) ==
            Extract(IF fenced[1] > 0 THEN fenced ELSE FindBraceSpan(responseText))
    IN Either(FindFencedObject(responseText, 1))

\* -------------------------------------------------- structural parser
PlaceholderComment ==
    [path |-> <<"unknown">>, line |-> 0,
     body |-> <<"Error: Invalid comment structure received.">>,
     priority |-> Undefined]

\* the body of sanitizeComment for an element whose properties can be read
sanitizeComment(comment) ==
    LET Sanitized(path, line, body) ==
            IF path.t # "str" \/ line.t # "num" \/ body.t # "str"
            THEN PlaceholderComment
            ELSE [path |-> path.s,
                  line |-> line.n,
                  priority |-> Get(comment, "priority"),
                  body |-> ReplaceAll(ReplaceAll(body.s, EscFence, Fence),
                                      <<BS, BT>>, <<BT>>)]
    IN Sanitized(Get(comment, "path"), Get(comment, "line"), Get(comment, "body"))

\* reading a property of null throws a TypeError
IsNull(v) == v.t = "lit" /\ v.s = "null"

\* review.comments.map(this.sanitizeComment)
MapSanitize(elems) ==
    IF \E i \in 1..Len(elems) : IsNull(elems[i])
    THEN Throw(Err(TypeErrorMessage))
    ELSE Return([i \in 1..Len(elems) |-> sanitizeComment(elems[i])])

\* a parser that takes a field besides summary and comments for a failure
parseReviewJsonRejectsExtra(jsonString) ==
    LET Mapped(review, mapped) ==
            IF ~mapped.ok THEN mapped
            ELSE Return([summary |-> Get(review, "summary"), comments |-> mapped.val])
        Review(review) ==
            IF IsNull(review) THEN Throw(Err(TypeErrorMessage))
            ELSE IF ~Truthy(Get(review, "summary")) \/ Get(review, "comments").t # "arr"
                    \/ \E i \in 1..Len(ObjectKeys(review)) :
                          ObjectKeys(review)[i] \notin {<<"summary">>, <<"comments">>}
                 THEN Throw(Err(InvalidStructureMessage))
            ELSE Mapped(review, MapSanitize(Get(review, "comments").a))
        Parsed(parsed) ==
            IF ~parsed.ok THEN Throw(Err(SyntaxErrorMessage)) ELSE Review(parsed.val)
    IN Parsed(JsonParse(sanitizeJsonString(jsonString)))

parseReviewJson(jsonString) ==
    LET Mapped(review, mapped) ==
            IF ~mapped.ok THEN mapped
            ELSE Return([summary |-> Get(review, "summary"), comments |-> mapped.val])
        Review(review) ==
            IF IsNull(review) THEN Throw(Err(TypeErrorMessage))
            ELSE IF ~Truthy(Get(review, "summary")) \/ Get(review, "comments").t # "arr"
                 THEN Throw(Err(InvalidStructureMessage))
            ELSE Mapped(review, MapSanitize(Get(review, "comments").a))
        Parsed(parsed) ==
            IF ~parsed.ok THEN Throw(Err(SyntaxErrorMessage)) ELSE Review(parsed.val)
    IN Parsed(JsonParse(sanitizeJsonString(jsonString)))

\* ----------------------------------------------------- fallback chain
\* "((?:\\.|[^"\\])*)" from the character after the opening quote: the index
\* of the closing quote, 0 when the pattern does not match
RECURSIVE QuotedEnd(_, _)
QuotedEnd(s, j) ==
    IF j > Len(s) THEN 0
    ELSE IF s[j] = QT THEN j
    ELSE IF s[j] = BS
         THEN IF j + 1 <= Len(s) /\ s[j + 1] \notin {NL, "\r"}
              THEN QuotedEnd(s, j + 2)
              ELSE 0
    ELSE QuotedEnd(s, j + 1)

\* "key"\s*:\s* anchored at i: the index after it, 0 when it does not match
MatchKey(s, i, key) ==
    IF ~StartsAt(s, i, <<QT, key, QT>>) THEN 0
    ELSE LET a == SkipWs(s, i + 3)
         IN IF a <= Len(s) /\ s[a] = ":" THEN SkipWs(s, a + 1) ELSE 0

\* "key"\s*:\s*"((?:\\.|[^"\\])*)" anchored at i: group 1 and the index after
MatchStringField(s, i, key) ==
    LET Group(b, e) ==
            IF e > 0 THEN [ok |-> TRUE, val |-> SubSeq(s, b + 1, e - 1), next |-> e + 1]
            ELSE [ok |-> FALSE, val |-> <<>>, next |-> 0]
        Value(b) ==
            Group(b, IF b > 0 /\ b <= Len(s) /\ s[b] = QT THEN QuotedEnd(s, b + 1)
                     ELSE 0)
    IN Value(MatchKey(s, i, key))

\* text.match(/"summary"\s*:\s*"((?:\\.|[^"\\])*)"/): the leftmost match
FindSummary(s, i) ==
    LET Matched(j) ==
            IF j = 0 THEN [ok |-> FALSE, val |-> <<>>, next |-> 0]
            ELSE MatchStringField(s, j, "summary")
    IN Matched(Leftmost({j \in i..Len(s) : MatchStringField(s, j, "summary").ok}))

\* \s*,\s* from i: the index after it, 0 when it does not match
MatchComma(s, i) ==
    LET a == SkipWs(s, i)
    IN IF i > 0 /\ a <= Len(s) /\ s[a] = "," THEN SkipWs(s, a + 1) ELSE 0

\* the comment-object pattern
\* /\{\s*"path"\s*:\s*"(..)"\s*,\s*"line"\s*:\s*(\d+)\s*,\s*"body"\s*:\s*"(..)"\s*\}/
\* anchored at i
MatchCommentObject(s, i) ==
    LET none == [ok |-> FALSE, path |-> <<>>, line |-> <<>>, body |-> <<>>, next |-> 0]
        Close(p, l, d, b, e) ==
            IF e <= Len(s) /\ s[e] = "}"
            THEN [ok |-> TRUE, path |-> p.val, line |-> SubSeq(s, l, d - 1),
                  body |-> b.val, next |-> e + 1]
            ELSE none
        Body(p, l, d, b) == IF b.ok THEN Close(p, l, d, b, SkipWs(s, b.next)) ELSE none
        Line(p, l, d) ==
            IF l > 0 /\ d > l
            THEN Body(p, l, d, MatchStringField(s, MatchComma(s, d), "body"))
            ELSE none
        LineKey(p, l) == Line(p, l, IF l > 0 THEN SkipClass(s, l, Digit) ELSE 0)
        Path(p) ==
            IF p.ok THEN LineKey(p, MatchKey(s, MatchComma(s, p.next), "line")) ELSE none
    IN IF i <= Len(s) /\ s[i] = "{"
       THEN Path(MatchStringField(s, SkipWs(s, i + 1), "path"))
       ELSE none

\* /\n([a-z]+)\n(\s*[^`\s])/ anchored at i; lang is $1, code is $2
MatchLangLine(s, i) ==
    LET c == i + 1
        d == SkipClass(s, c, Lower)
        f == SkipWs(s, d + 1)
    IN IF i <= Len(s) /\ s[i] = NL /\ d > c /\ d <= Len(s) /\ s[d] = NL
          /\ f <= Len(s) /\ s[f] \notin ({BT} \cup WS)
       THEN [ok |-> TRUE, lang |-> SubSeq(s, c, d - 1), code |-> SubSeq(s, d + 1, f),
             next |-> f + 1]
       ELSE [ok |-> FALSE, lang |-> <<>>, code |-> <<>>, next |-> 0]

\* .replace(/\n([a-z]+)\n(\s*[^`\s])/g, "\n```$1\n$2")
RECURSIVE FenceLangLines(_, _)
FenceLangLines(s, i) ==
    LET Replace(j, m) ==
            IF j = 0 THEN SubSeq(s, i, Len(s))
            ELSE SubSeq(s, i, j - 1) \o <<NL>> \o Fence \o m.lang \o <<NL>> \o m.code
                 \o FenceLangLines(s, m.next)
        Step(j) == Replace(j, MatchLangLine(s, j))
    IN Step(Leftmost({j \in i..Len(s) : MatchLangLine(s, j).ok}))

\* the unescaping of a recovered summary
UnescapeSummary(raw) ==
    ReplaceAll(ReplaceAll(ReplaceAll(ReplaceAll(raw, EscNl, <<NL>>),
                                     <<BS, QT>>, <<QT>>),
                          <<BS, BT>>, <<BT>>),
               EscFence, Fence)

\* the unescaping of a recovered comment body
UnescapeBody(raw) ==
    FenceLangLines(
        ReplaceAll(ReplaceAll(ReplaceAll(ReplaceAll(raw, EscNl, <<NL>>),
                                         <<BS, QT>>, <<QT>>),
                              EscFence, Fence),
                   <<BS, BT>>, <<BT>>),
        1)

RecoveredComment(m) ==
    [path |-> ReplaceAll(m.path, <<BS, BS>>, <<BS>>),
     line |-> ParseInt(m.line),
     body |-> UnescapeBody(m.body),
     priority |-> Undefined]

\* the exec loop of the global comment-object pattern over s
RECURSIVE ExecComments(_, _, _)
ExecComments(s, i, acc) ==
    LET Exec(j, m) ==
            IF j = 0 THEN acc
            ELSE ExecComments(s, m.next, Append(acc, RecoveredComment(m)))
        Step(j) == Exec(j, MatchCommentObject(s, j))
    IN Step(Leftmost({j \in i..Len(s) : MatchCommentObject(s, j).ok}))

\* .replace(/[\x00-\x08\x0B\x0C\x0E-\x1F]/g, "")
StripControl(s) == SelectSeq(s, LAMBDA ch : ch # FF)

\* /"comments"\s*:\s*\[([\s\S]*)\]/: group 1 of the leftmost match, as [from, to]
FindCommentBlock(s, i) ==
    LET Open(t, j) ==
            IF MatchKey(t, j, "comments") > 0 /\ MatchKey(t, j, "comments") <= Len(t)
               /\ t[MatchKey(t, j, "comments")] = "["
            THEN MatchKey(t, j, "comments")
            ELSE 0
        Block(b, e) == IF b > 0 /\ e > b THEN <<b + 1, e - 1>> ELSE <<0, 0>>
        Matched(j, e) == IF j = 0 THEN <<0, 0>> ELSE Block(Open(s, j), e)
        Close(e) ==
            Matched(Leftmost({j \in i..Len(s) : Open(s, j) > 0 /\ e > Open(s, j)}), e)
    IN Close(LastIndexOf(s, "]", Len(s)))

\* alternativeJsonParsing raising unless it finds both a summary and a comment
alternativeJsonParsingStrict(rawJsonString) ==
    LET Summary(summaryMatch) ==
            IF summaryMatch.ok THEN UnescapeSummary(summaryMatch.val)
            ELSE <<FallbackSummary>>
        Comments(potentiallyFixableJson, block) ==
            IF block[1] > 0 /\ block[2] >= block[1]
            THEN ExecComments(SubSeq(potentiallyFixableJson, block[1], block[2]), 1, <<>>)
            ELSE <<>>
        Result(summaryMatch, comments) ==
            IF ~summaryMatch.ok \/ Len(comments) = 0
            THEN Throw(Err(AlternativeFailedMessage))
            ELSE Return([summary |-> Str(Summary(summaryMatch)), comments |-> comments])
        Recover(potentiallyFixableJson) ==
            Result(FindSummary(potentiallyFixableJson, 1),
                   Comments(potentiallyFixableJson,
                            FindCommentBlock(potentiallyFixableJson, 1)))
    IN Recover(StripControl(rawJsonString))

alternativeJsonParsing(rawJsonString) ==
    LET Summary(summaryMatch) ==
            IF summaryMatch.ok THEN UnescapeSummary(summaryMatch.val)
            ELSE <<FallbackSummary>>
        Comments(potentiallyFixableJson, block) ==
            IF block[1] > 0 /\ block[2] >= block[1]
            THEN ExecComments(SubSeq(potentiallyFixableJson, block[1], block[2]), 1, <<>>)
            ELSE <<>>
        Result(summaryMatch, comments) ==
            IF ~summaryMatch.ok /\ Len(comments) = 0
            THEN Throw(Err(AlternativeFailedMessage))
            ELSE Return([summary |-> Str(Summary(summaryMatch)), comments |-> comments])
        Recover(potentiallyFixableJson) ==
            Result(FindSummary(potentiallyFixableJson, 1),
                   Comments(potentiallyFixableJson,
                            FindCommentBlock(potentiallyFixableJson, 1)))
    IN Recover(StripControl(rawJsonString))

TerminalFallback == [summary |-> Str(<<ParsingFailedSummary>>), comments |-> <<>>]

\* the try block of manualExtractionFallback: ok = FALSE when it throws
ManualExtraction(rawResponseText) ==
    LET Summary(summaryMatch) ==
            IF summaryMatch.ok THEN UnescapeSummary(summaryMatch.val)
            ELSE <<FallbackSummary>>
        Result(summaryMatch, comments) ==
            IF ~summaryMatch.ok /\ Len(comments) = 0
            THEN Throw(Err("Manual extraction failed."))
            ELSE Return([summary |-> Str(Summary(summaryMatch)), comments |-> comments])
    IN Result(FindSummary(rawResponseText, 1), ExecComments(rawResponseText, 1, <<>>))

manualExtractionFallback(rawResponseText) ==
    LET r == ManualExtraction(rawResponseText)
    IN IF r.ok THEN r.val ELSE TerminalFallback

\* ------------------------------------------------------ priority filter
\* a ranking that takes a comment without label for a medium one
getCommentPriorityMissingMedium(comment) ==
    LET p == comment.priority
    IN IF p.t = "str" /\ Len(p.s) > 0
       THEN CASE p.s = <<"critical">> -> 3
              [] p.s = <<"high">> -> 2
              [] p.s = <<"medium">> -> 1
              [] OTHER -> 0
       ELSE 1

getCommentPriority(comment) ==
    LET p == comment.priority
    IN IF p.t = "str" /\ Len(p.s) > 0
       THEN CASE p.s = <<"critical">> -> 3
              [] p.s = <<"high">> -> 2
              [] p.s = <<"medium">> -> 1
              [] OTHER -> 0
       ELSE 0

getMinPriorityLevel(priority) ==
    CASE priority = "critical" -> 3
      [] priority = "high" -> 2
      [] priority = "medium" -> 1
      [] OTHER -> 0

\* the comparator of the sort: negative when a goes before b
ComparePriority(a, b) == getCommentPriority(b) - getCommentPriority(a)

\* an insertion that puts x before the elements it ties with
RECURSIVE InsertSortedUnstable(_, _, _)
InsertSortedUnstable(sorted, x, i) ==
    IF i > Len(sorted) THEN Append(sorted, x)
    ELSE IF ComparePriority(x, sorted[i]) <= 0
         THEN SubSeq(sorted, 1, i - 1) \o <<x>> \o SubSeq(sorted, i, Len(sorted))
         ELSE InsertSortedUnstable(sorted, x, i + 1)

\* Array.prototype.sort is stable: x goes before the first element it precedes
RECURSIVE InsertSorted(_, _, _)
InsertSorted(sorted, x, i) ==
    IF i > Len(sorted) THEN Append(sorted, x)
    ELSE IF ComparePriority(x, sorted[i]) < 0
         THEN SubSeq(sorted, 1, i - 1) \o <<x>> \o SubSeq(sorted, i, Len(sorted))
         ELSE InsertSorted(sorted, x, i + 1)

RECURSIVE SortFrom(_, _, _)
SortFrom(cs, i, acc) ==
    IF i > Len(cs) THEN acc ELSE SortFrom(cs, i + 1, InsertSorted(acc, cs[i], 1))

SortComments(comments) == SortFrom(comments, 1, <<>>)

\* a slice that keeps one comment more than asked
SliceOneMore(cs, n) == SubSeq(cs, 1, IF n + 1 < Len(cs) THEN n + 1 ELSE Len(cs))

\* filteredComments.slice(0, n)
Slice(cs, n) == SubSeq(cs, 1, IF n < Len(cs) THEN n ELSE Len(cs))

\* a note that states the number of dropped comments in place of the kept ones
FilterNoteSwapped(total, kept) ==
    <<NL, NL, "_note: ">> \o NumToStr(total) \o <<" comments, shown ">>
    \o NumToStr(total - kept) \o <<". filtered ">> \o NumToStr(kept) \o <<"._">>

\* the note appended to the summary: N of which K shown, R filtered
FilterNote(total, kept) ==
    <<NL, NL, "_note: ">> \o NumToStr(total) \o <<" comments, shown ">>
    \o NumToStr(kept) \o <<". filtered ">> \o NumToStr(total - kept) \o <<"._">>

\* a filter that truncates the input before it sorts and applies the floor
filterReviewCommentsSliceFirst(review, options) ==
    IF Len(review.comments) = 0 THEN review
    ELSE LET Cut(cs) ==
                 IF Len(options.maxComments) > 0 /\ options.maxComments[1] > 0
                 THEN SubSeq(cs, 1, IF options.maxComments[1] < Len(cs)
                                    THEN options.maxComments[1] ELSE Len(cs))
                 ELSE cs
             Floor(cs) ==
                 IF options.commentPriority # ""
                 THEN SelectSeq(cs, LAMBDA c : getCommentPriority(c)
                                               >= getMinPriorityLevel(options.commentPriority))
                 ELSE cs
             Result(cs) ==
                 [summary |->
                      IF Len(cs) < Len(review.comments)
                      THEN Str(ToStr(review.summary)
                               \o <<NL, NL, "_note: ">>
                               \o NumToStr(Len(review.comments))
                               \o <<" comments, shown ">> \o NumToStr(Len(cs))
                               \o <<". filtered ">>
                               \o NumToStr(Len(review.comments) - Len(cs)) \o <<"._">>)
                      ELSE review.summary,
                  comments |-> cs]
         IN Result(Floor(SortComments(Cut(review.comments))))

\* options.maxComments is <<>> when not set, <<k>> when set to k;
\* options.commentPriority is "" when not set
filterReviewComments(review, options) ==
    IF Len(review.comments) = 0 THEN review
    ELSE LET sortedComments == SortComments(review.comments)
             byPriority ==
                 IF options.commentPriority # ""
                 THEN SelectSeq(sortedComments,
                                LAMBDA c : getCommentPriority(c)
                                           >= getMinPriorityLevel(options.commentPriority))
                 ELSE sortedComments
             filteredComments ==
                 IF Len(options.maxComments) > 0 /\ options.maxComments[1] > 0
                 THEN Slice(byPriority, options.maxComments[1])
                 ELSE byPriority
         IN [summary |->
                 IF Len(filteredComments) < Len(review.comments)
                 THEN Str(ToStr(review.summary)
                          \o FilterNote(Len(review.comments), Len(filteredComments)))
                 ELSE review.summary,
             comments |-> filteredComments]

handleGenerationError(error) ==
    IF error.isError
    THEN [summary |-> Str(<<GenerationErrorPrefix, error.message>>), comments |-> <<>>]
    ELSE [summary |-> Str(<<UnknownErrorSummary>>), comments |-> <<>>]

\* ------------------------------------------------------------ publisher
\* the three messages createReviewWithComments looks for in a summary (Korean
\* text in the source, written here in English)
KoParsingFailed == "ko: failed to parse the code review response"

\* summary.includes(..) throws a TypeError unless summary is a string or an array
HasIncludes(summary) == summary.t \in {"str", "arr"}

isErrorSummary(summary) ==
    /\ summary.t = "str"
    /\ \/ Includes(summary.s, KoParsingFailed)
       \/ Includes(summary.s,
                   "ko: an error occurred while generating the Claude code review")
       \/ Includes(summary.s,
                   "ko: cannot generate the code review because of an unknown error")

\* /@@ -\d+(?:,\d+)? \+(\d+)(?:,(\d+))? @@/ anchored at i
MatchHunkHeader(p, i) ==
    LET none == [ok |-> FALSE, start |-> <<>>, count |-> <<>>, next |-> 0]
        a == i + 3
        b == SkipClass(p, a, Digit)
        c == IF b <= Len(p) /\ p[b] = "," THEN SkipClass(p, b + 1, Digit) ELSE b
        d == c + 2
        e == SkipClass(p, d, Digit)
        f == IF e <= Len(p) /\ p[e] = "," THEN SkipClass(p, e + 1, Digit) ELSE e
    IN IF /\ StartsAt(p, i, <<"@@", SP, "-">>)
          /\ b > a
          /\ (c = b \/ c > b + 1)
          /\ StartsAt(p, c, <<SP, "+">>)
          /\ e > d
          /\ (f = e \/ f > e + 1)
          /\ StartsAt(p, f, <<SP, "@@">>)
       THEN [ok |-> TRUE, start |-> SubSeq(p, d, e - 1),
             count |-> IF f > e THEN SubSeq(p, e + 1, f - 1) ELSE <<>>,
             next |-> f + 2]
       ELSE none

\* a range that ends one line after the hunk
HunkRangeOneMore(m) ==
    LET start == ParseInt(m.start)
        length == IF Len(m.count) > 0 THEN ParseInt(m.count) ELSE 1
    IN [start |-> start, end |-> start + length]

\* {start, end: start + length - 1} of a matched header
HunkRange(m) ==
    LET start == ParseInt(m.start)
        length == IF Len(m.count) > 0 THEN ParseInt(m.count) ELSE 1
    IN [start |-> start, end |-> start + length - 1]

\* the ranges of every hunk header of a patch, in order
RECURSIVE HunkRanges(_, _, _)
HunkRanges(p, i, acc) ==
    LET Exec(j, m) ==
            IF j = 0 THEN acc ELSE HunkRanges(p, m.next, Append(acc, HunkRange(m)))
        Step(j) == Exec(j, MatchHunkHeader(p, j))
    IN Step(Leftmost({j \in i..Len(p) : MatchHunkHeader(p, j).ok}))

\* (?:(?!@@)[^\n]*\n)* from i: the index after the lines it takes
RECURSIVE SkipHunkLines(_, _)
SkipHunkLines(p, i) ==
    LET Line(nl) ==
            IF i > Len(p) \/ p[i] = "@@" \/ nl = 0 THEN i ELSE SkipHunkLines(p, nl + 1)
    IN Line(IndexOf(p, NL, i))

\* the ranges of the hunks of the individual-comment fallback, whose pattern
\* /<header>[^\n]*\n(?:(?!@@)[^\n]*\n)*/g also takes the lines of a hunk
RECURSIVE HunkTextRanges(_, _, _)
HunkTextRanges(p, i, acc) ==
    LET HeaderLine(t, j) ==
            MatchHunkHeader(t, j).ok /\ IndexOf(t, NL, MatchHunkHeader(t, j).next) > 0
        Exec(j, m) ==
            IF j = 0 THEN acc
            ELSE HunkTextRanges(p, SkipHunkLines(p, IndexOf(p, NL, m.next) + 1),
                                Append(acc, HunkRange(m)))
        Step(j) == Exec(j, MatchHunkHeader(p, j))
    IN Step(Leftmost({j \in i..Len(p) : HeaderLine(p, j)}))

InSomeRange(ranges, line) ==
    \E i \in 1..Len(ranges) : line >= ranges[i].start /\ line <= ranges[i].end

\* validLineRanges[path] after the loop over files: the ranges of the last file
\* of that name that has a patch; ok = FALSE when there is no such file
RECURSIVE ValidLineRanges(_, _, _)
ValidLineRanges(files, i, path) ==
    IF i = 0 THEN [ok |-> FALSE, ranges |-> <<>>]
    ELSE IF files[i].filename = path /\ Len(files[i].patch) > 0
         THEN [ok |-> TRUE, ranges |-> HunkRanges(files[i].patch, 1, <<>>)]
         ELSE ValidLineRanges(files, i - 1, path)

IsValidComment(files, comment) ==
    /\ Len(comment.body) > 0
    /\ comment.line > 0
    /\ Len(comment.path) > 0
    /\ ValidLineRanges(files, Len(files), comment.path).ok
    /\ InSomeRange(ValidLineRanges(files, Len(files), comment.path).ranges, comment.line)

LineComment(comment) ==
    [path |-> comment.path, line |-> comment.line, body |-> comment.body]

\* comments.filter(..).map(..) of createReviewWithComments
validComments(files, comments) ==
    LET kept == SelectSeq(comments, LAMBDA c : IsValidComment(files, c))
    IN [i \in 1..Len(kept) |-> LineComment(kept[i])]

\* files.find((f) => f.filename === path): its index, 0 when there is none
RECURSIVE FindFile(_, _, _)
FindFile(files, i, path) ==
    IF i > Len(files) THEN 0
    ELSE IF files[i].filename = path THEN i
    ELSE FindFile(files, i + 1, path)

\* whether the individual-comment fallback finds a diff hunk for the comment
HasDiffHunk(files, comment) ==
    LET f == FindFile(files, 1, comment.path)
    IN /\ f > 0
       /\ Len(files[f].patch) > 0
       /\ InSomeRange(HunkTextRanges(files[f].patch, 1, <<>>), comment.line)

SummaryBody(summary) ==
    <<"# Loxops", NL, NL, "## Overall Assessment", NL, NL>> \o ToStr(summary)

RECURSIVE CommentLines(_, _)
CommentLines(comments, i) ==
    IF i > Len(comments) THEN <<>>
    ELSE (IF i > 1 THEN <<NL, NL>> ELSE <<>>)
         \o <<"- **">> \o comments[i].path \o <<":">> \o NumToStr(comments[i].line)
         \o <<"**: ">> \o comments[i].body \o CommentLines(comments, i + 1)

\* the body createReviewComment posts from the outer catch
FallbackBody(summary, comments) ==
    <<"# Loxops", NL, NL>> \o ToStr(summary) \o <<NL, NL, "## details", NL, NL>>
    \o CommentLines(comments, 1)

Call(api, ok, body, comments) ==
    [api |-> api, ok |-> ok, body |-> body, comments |-> comments]

\* --------------------------------------------------------------- bounds
\* the longest comment array of a generated response
MaxPayloadComments == 2
\* the largest max-comments input
MaxCommentsOption == 2
\* the longest comment list handed to the priority filter on its own
MaxFilterLen == 4

\* ------------------------------------------------------ response texts
Key(k) == <<QT, k, QT>>
Quoted(chars) == <<QT>> \o chars \o <<QT>>
Field(k, v) == Key(k) \o <<":">> \o v

RECURSIVE Join(_, _, _)
Join(parts, sep, i) ==
    IF i > Len(parts) THEN <<>>
    ELSE (IF i > 1 THEN sep ELSE <<>>) \o parts[i] \o Join(parts, sep, i + 1)

Obj(fields) == <<"{">> \o Join(fields, <<",">>, 1) \o <<"}">>
Arr(elems) == <<"[">> \o Join(elems, <<",">>, 1) \o <<"]">>

\* a comment object as the requested response format writes it
CommentText(c) ==
    Obj(<<Field("path", Quoted(c.path)), Field("line", c.line)>>
        \o (IF Len(c.priority) > 0 THEN <<Field("priority", Quoted(c.priority))>>
            ELSE <<>>)
        \o <<Field("body", Quoted(c.body))>>)

Comment(path, line, priority, body) ==
    [path |-> path, line |-> line, priority |-> priority, body |-> body]

CommentLists ==
    LET CommentKinds ==
            {Comment(<<"x">>, <<"1">>, <<"critical">>, <<"y">>),
             Comment(<<"x">>, <<"9">>, <<"high">>, <<"y">>),
             Comment(<<"y">>, <<"1">>, <<>>, <<"z">>),
             Comment(<<"x">>, <<"2">>, <<>>, <<"y">>)}
    IN UNION {[1..n -> CommentKinds] : n \in 0..MaxPayloadComments}

CommentArray(cs) == Arr([i \in 1..Len(cs) |-> CommentText(cs[i])])

Payload(summary, comments) ==
    Obj(<<Field("summary", summary), Field("comments", comments)>>)

\* a well-formed response
GoodPayload(cs) == Payload(Quoted(<<"x">>), CommentArray(cs))

\* the same with a trailing comma after the array: not JSON
TrailingComma(cs) ==
    <<"{">> \o Field("summary", Quoted(<<"x">>)) \o <<",">>
    \o Field("comments", CommentArray(cs)) \o <<",", "}">>

KindA == Comment(<<"x">>, <<"1">>, <<"critical">>, <<"y">>)
KindC == Comment(<<"y">>, <<"1">>, <<>>, <<"z">>)

SpecialPayloads ==
    { \* required fields missing or of another type
      Obj(<<Field("comments", CommentArray(<<KindC>>))>>),
      Obj(<<Field("summary", Quoted(<<"x">>))>>),
      Obj(<<Field("overview", Quoted(<<"x">>))>>),
      Payload(Quoted(<<>>), Arr(<<>>)),
      Payload(<<"1">>, CommentArray(<<KindA>>)),
      Payload(Quoted(<<"x">>), Quoted(<<"y">>)),
      \* an extra top-level field
      Obj(<<Field("summary", Quoted(<<"x">>)), Field("comments", CommentArray(<<KindA>>)),
            Field("overview", Quoted(<<"y">>))>>),
      \* malformed comments
      Payload(Quoted(<<"x">>), Arr(<<CommentText(KindA), <<"null">>>>)),
      Payload(Quoted(<<"x">>),
              Arr(<<Obj(<<Field("path", Quoted(<<"x">>)), Field("line", Quoted(<<"1">>)),
                          Field("body", Quoted(<<"y">>))>>),
                    CommentText(KindC)>>)),
      Payload(Quoted(<<"x">>),
              Arr(<<CommentText(Comment(<<>>, <<"1">>, <<>>, <<"y">>)),
                    CommentText(Comment(<<"x">>, <<"1">>, <<>>, <<>>)),
                    CommentText(Comment(<<"unknown">>, <<"0">>, <<>>, <<"y">>))>>)),
      \* escapes: a quote, a newline, escaped backticks, a doubled backslash
      Payload(Quoted(<<"x", BS, QT, BS, "n", "y">>),
              CommentArray(<<Comment(<<"x">>, <<"1">>, <<>>,
                                     EscFence \o <<"lang", BS, "n", "y", BS, BT>>)>>)),
      Payload(Quoted(<<"x", BS, BS, "n", "y">>), Arr(<<>>)),
      \* a language name alone on an escaped line
      Payload(Quoted(<<"x">>),
              CommentArray(<<Comment(<<"x">>, <<"1">>, <<>>,
                                     <<"y", ":", BS, "n", "lang", BS, "n", "z">>)>>)),
      \* a raw line break and a control character inside a string
      Payload(Quoted(<<"x", NL, "y">>), CommentArray(<<KindC>>)),
      Payload(Quoted(<<"x", FF>>), Arr(<<>>)),
      \* the summary the publisher takes for a failure message
      Payload(Quoted(<<KoParsingFailed>>), CommentArray(<<KindA>>)),
      \* pretty-printed
      <<"{", NL, SP>> \o Key("summary") \o <<":", SP>> \o Quoted(<<"x">>) \o <<",", NL, SP>>
      \o Key("comments") \o <<":", SP, "[", NL>> \o CommentText(KindA) \o <<NL, "]", NL, "}">>,
      \* braces without any field
      <<"{", "x", "}">>,
      \* no brace at all
      <<>>,
      <<"x", SP, "y">>,
      Field("summary", Quoted(<<"x">>)),
      <<"x", SP>> \o Field("summary", Quoted(<<"y">>)) \o <<SP, "}", SP, "{">> }

\* payloads inside a fence, with or without the json tag, or among prose
WrappedPayloads ==
    LET Wrapped(p) ==
            { Fence \o <<"json", NL>> \o p \o <<NL>> \o Fence,
              Fence \o <<NL>> \o p \o <<NL>> \o Fence,
              <<"x", SP>> \o Fence \o <<"json", NL>> \o p \o <<NL>> \o Fence \o <<NL, "y">>,
              Fence \o <<"lang", NL>> \o p \o <<NL>> \o Fence,
              <<"x", ":", NL>> \o p \o <<NL, "y">>,
              \* an untagged fenced object before the tagged one
              Fence \o <<"{", "x", "}">> \o Fence \o <<NL>> \o Fence \o <<"json">> \o p
              \o Fence,
              \* a comment object after the fenced payload
              Fence \o <<"json", NL>> \o p \o <<NL>> \o Fence \o <<NL>> \o CommentText(KindC) }
    IN UNION {Wrapped(p) : p \in {GoodPayload(<<KindA>>), TrailingComma(<<KindC>>),
                                  <<"{", "x", "}">>,
                                  Obj(<<Field("summary", Quoted(<<"x">>))>>)}}

RawTexts ==
    {GoodPayload(cs) : cs \in CommentLists}
    \cup {TrailingComma(cs) : cs \in CommentLists}
    \cup SpecialPayloads \cup WrappedPayloads

\* ----------------------------------------------------- action inputs
\* the max-comments and comment-priority inputs of the action ("" when not given)
ActionInputs ==
    [maxComments : {<<>>} \cup {NumToStr(k) : k \in 0..MaxCommentsOption},
     commentPriority : {"", "all", "medium", "high", "critical"}]

\* the options run() would build were the floor left unset without an input
RunOptionsNoDefault(inputs) ==
    [maxComments |-> IF Len(inputs.maxComments) > 0
                     THEN <<ParseInt(inputs.maxComments)>> ELSE <<>>,
     commentPriority |-> IF inputs.commentPriority # "" THEN inputs.commentPriority
                         ELSE "all"]

\* the options run() builds from the inputs
RunOptions(inputs) ==
    [maxComments |-> IF Len(inputs.maxComments) > 0
                     THEN <<ParseInt(inputs.maxComments)>> ELSE <<>>,
     commentPriority |-> IF inputs.commentPriority # "" THEN inputs.commentPriority
                         ELSE "medium"]

\* ------------------------------------------------------------- diffs
\* the files of the pull request: a name and hunks <<start>> or <<start, count>>
File(name, hunks) == [filename |-> name, hunks |-> hunks]

Diffs ==
    { <<File(<<"x">>, << <<1, 2>> >>)>>,
      <<File(<<"x">>, << <<1>>, <<9, 1>> >>), File(<<"y">>, <<>>)>>,
      <<File(<<"y">>, << <<1, 0>> >>), File(<<"unknown">>, << <<0, 3>> >>)>>,
      <<>> }

RECURSIVE PatchText(_, _)
PatchText(hunks, i) ==
    LET HunkText(h) ==
            <<"@@", SP, "-", "1", SP, "+">> \o NumToStr(h[1])
            \o (IF Len(h) > 1 THEN <<",">> \o NumToStr(h[2]) ELSE <<>>)
            \o <<SP, "@@", SP, "x", NL, "+", "y", NL>>
    IN IF i > Len(hunks) THEN <<>> ELSE HunkText(hunks[i]) \o PatchText(hunks, i + 1)

\* what pulls.listFiles returns for a diff: a file without hunks has no patch
ListedFiles(diff) ==
    [i \in 1..Len(diff) |->
        [filename |-> diff[i].filename, patch |-> PatchText(diff[i].hunks, 1)]]

\* ---------------------------------------------------------------- state
VARIABLES
    options,       \* the ReviewOptions of the run (maxComments, commentPriority)
    pc,            \* where the run is
    responseText,  \* what callClaudeApi returned
    jsonString,    \* what extractJsonFromResponse returned
    thrown,        \* the exception in flight
    parsed,        \* the review a parsing stage produced, before any filtering
    review,        \* the review generateReview returned
    stages,        \* the stages attempted so far, in order
    diff,          \* the diff of the pull request
    files,         \* what pulls.listFiles returned
    calls,         \* the calls made to the hosting API, in order
    idx,           \* the position of the individual-comment loop
    invocations,   \* the parseClaudeResponse calls made on one service, with results
    maxRetries,    \* retryWithBackoff: its second argument
    initialDelay,  \* retryWithBackoff: its third argument
    retries,       \* retryWithBackoff: the failures counted so far
    delay,         \* retryWithBackoff: the next wait
    result         \* retryWithBackoff: what it returned or threw

vars == <<options, pc, responseText, jsonString, thrown, parsed, review, stages,
          diff, files, calls, idx, invocations, maxRetries, initialDelay, retries,
          delay, result>>

NoReview == [summary |-> Undefined, comments |-> <<>>]

pipelineVars == <<responseText, jsonString, thrown, parsed, review, stages>>
publisherVars == <<diff, files, calls, idx>>
retryVars == <<maxRetries, initialDelay, retries, delay, result>>

Init ==
    /\ options \in {RunOptions(i) : i \in ActionInputs}
    /\ pc = "prepare"
    /\ responseText = <<>>
    /\ jsonString = <<>>
    /\ thrown = NoErr
    /\ parsed = NoReview
    /\ review = NoReview
    /\ stages = <<>>
    /\ diff = <<>>
    /\ files = <<>>
    /\ calls = <<>>
    /\ idx = 0
    /\ invocations = <<>>
    /\ maxRetries = 0
    /\ initialDelay = 0
    /\ retries = 0
    /\ delay = 0
    /\ result = Throw(NoErr)

\* ------------------------------------------------------------ run()
\* prepareReviewContext and findRelatedFiles: a throw lands in the catch of run
PrepareReviewContext ==
    /\ pc = "prepare"
    /\ \E ok \in BOOLEAN : pc' = IF ok THEN "callClaudeApi" ELSE "runFailed"
    /\ UNCHANGED <<options, invocations, retryVars, pipelineVars, publisherVars>>

\* ---------------------------------------------------- generateReview
\* buildSystemPrompt and callClaudeApi inside the try of generateReview
CallClaudeApi ==
    /\ pc = "callClaudeApi"
    /\ \E out \in {Return(t) : t \in RawTexts}
                  \cup {Throw(Err("request failed")), Throw(NonError)} :
          /\ responseText' = IF out.ok THEN out.val ELSE <<>>
          /\ thrown' = out.err
          /\ pc' = IF out.ok THEN "extract" ELSE "catchGeneration"
    /\ stages' = Append(stages, "generate")
    /\ UNCHANGED <<options, invocations, retryVars, jsonString, parsed, review, publisherVars>>

\* parseClaudeResponse, first statement: outside its try block
ExtractJson ==
    /\ pc = "extract"
    /\ LET r == extractJsonFromResponse(responseText)
       IN /\ jsonString' = IF r.ok THEN r.val ELSE <<>>
          /\ thrown' = r.err
          /\ pc' = IF r.ok THEN "parse" ELSE "catchGeneration"
    /\ stages' = Append(stages, "extract")
    /\ UNCHANGED <<options, invocations, retryVars, responseText, parsed, review, publisherVars>>

\* parseClaudeResponse, the try block: parseReviewJson then filterReviewComments
ParseReview ==
    /\ pc = "parse"
    /\ LET r == parseReviewJson(jsonString)
       IN /\ parsed' = IF r.ok THEN r.val ELSE parsed
          /\ review' = IF r.ok THEN filterReviewComments(r.val, options) ELSE review
          /\ thrown' = r.err
          /\ pc' = IF r.ok THEN "publish" ELSE "alternative"
    /\ stages' = Append(stages, "parse")
    /\ UNCHANGED <<options, invocations, retryVars, responseText, jsonString, publisherVars>>

\* handleParsingFailure, the try block: alternativeJsonParsing(jsonString)
AlternativeParsing ==
    /\ pc = "alternative"
    /\ LET r == alternativeJsonParsing(jsonString)
       IN /\ parsed' = IF r.ok THEN r.val ELSE parsed
          /\ review' = IF r.ok THEN r.val ELSE review
          /\ thrown' = r.err
          /\ pc' = IF r.ok THEN "publish" ELSE "manual"
    /\ stages' = Append(stages, "alternative")
    /\ UNCHANGED <<options, invocations, retryVars, responseText, jsonString, publisherVars>>

\* handleParsingFailure, the catch block: manualExtractionFallback(jsonString),
\* its try block
ManualFallback ==
    /\ pc = "manual"
    /\ LET r == ManualExtraction(jsonString)
       IN /\ parsed' = IF r.ok THEN r.val ELSE parsed
          /\ review' = IF r.ok THEN r.val ELSE review
          /\ thrown' = r.err
          /\ pc' = IF r.ok THEN "publish" ELSE "terminal"
    /\ stages' = Append(stages, "manual")
    /\ UNCHANGED <<options, invocations, retryVars, responseText, jsonString, publisherVars>>

\* manualExtractionFallback, the catch block
UltimateFallback ==
    /\ pc = "terminal"
    /\ review' = TerminalFallback
    /\ thrown' = NoErr
    /\ pc' = "publish"
    /\ stages' = Append(stages, "terminal")
    /\ UNCHANGED <<options, invocations, retryVars, responseText, jsonString, parsed, publisherVars>>

\* generateReview without its catch block: the exception reaches run()
CatchGenerationRethrows ==
    /\ pc = "catchGeneration"
    /\ pc' = "runFailed"
    /\ stages' = Append(stages, "generationError")
    /\ UNCHANGED <<options, invocations, retryVars, responseText, jsonString, thrown, parsed, review,
                   publisherVars>>

\* generateReview, the catch block
CatchGeneration ==
    /\ pc = "catchGeneration"
    /\ review' = handleGenerationError(thrown)
    /\ thrown' = NoErr
    /\ pc' = "publish"
    /\ stages' = Append(stages, "generationError")
    /\ UNCHANGED <<options, invocations, retryVars, responseText, jsonString, parsed, publisherVars>>

\* -------------------------------------------- createReviewWithComments
\* the summary check and the summary note
PostSummary ==
    /\ pc = "publish"
    /\ IF ~HasIncludes(review.summary)
       THEN pc' = "fallbackComment" /\ calls' = calls
       ELSE IF isErrorSummary(review.summary)
            THEN pc' = "done" /\ calls' = calls
            ELSE \E ok \in BOOLEAN :
                    /\ calls' = Append(calls, Call("issues.createComment", ok,
                                                   SummaryBody(review.summary), <<>>))
                    /\ pc' = IF ~ok THEN "fallbackComment"
                             ELSE IF Len(review.comments) = 0 THEN "done"
                             ELSE "getPullRequest"
    /\ UNCHANGED <<options, invocations, retryVars, pipelineVars, diff, files, idx>>

GetPullRequest ==
    /\ pc = "getPullRequest"
    /\ \E ok \in BOOLEAN :
          /\ calls' = Append(calls, Call("pulls.get", ok, <<>>, <<>>))
          /\ pc' = IF ok THEN "listFiles" ELSE "fallbackComment"
    /\ UNCHANGED <<options, invocations, retryVars, pipelineVars, diff, files, idx>>

\* a listing step that goes on to the review even without any valid comment
ListFilesAlwaysReviews ==
    /\ pc = "listFiles"
    /\ \E out \in {<<TRUE, d>> : d \in Diffs} \cup {<<FALSE, <<>>>>} :
          /\ diff' = out[2]
          /\ files' = ListedFiles(out[2])
          /\ calls' = Append(calls, Call("pulls.listFiles", out[1], <<>>, <<>>))
          /\ pc' = IF ~out[1] THEN "fallbackComment" ELSE "createReview"
    /\ UNCHANGED <<options, invocations, retryVars, pipelineVars, idx>>

\* pulls.listFiles, then the valid line ranges and the valid comments
ListFiles ==
    /\ pc = "listFiles"
    /\ \E out \in {<<TRUE, d>> : d \in Diffs} \cup {<<FALSE, <<>>>>} :
          /\ diff' = out[2]
          /\ files' = ListedFiles(out[2])
          /\ calls' = Append(calls, Call("pulls.listFiles", out[1], <<>>, <<>>))
          /\ pc' = IF ~out[1] THEN "fallbackComment"
                   ELSE IF Len(validComments(ListedFiles(out[2]), review.comments)) > 0
                        THEN "createReview"
                   ELSE "done"
    /\ UNCHANGED <<options, invocations, retryVars, pipelineVars, idx>>

CreateReview ==
    /\ pc = "createReview"
    /\ \E ok \in BOOLEAN :
          /\ calls' = Append(calls, Call("pulls.createReview", ok, <<"# Loxops">>,
                                         validComments(files, review.comments)))
          /\ pc' = IF ok THEN "done" ELSE "individual"
    /\ idx' = 1
    /\ UNCHANGED <<options, invocations, retryVars, pipelineVars, diff, files>>

\* a loop over validComments that gives up at the first comment that fails
PostIndividualStopsAtFailure ==
    /\ pc = "individual"
    /\ LET valid == validComments(files, review.comments)
       IN IF idx > Len(valid)
          THEN pc' = "done" /\ calls' = calls /\ idx' = idx
          ELSE /\ idx' = idx + 1
               /\ IF ~HasDiffHunk(files, valid[idx])
                  THEN calls' = calls /\ pc' = pc
                  ELSE \E ok \in BOOLEAN :
                          /\ calls' = Append(calls, Call("pulls.createReviewComment", ok,
                                                         <<>>, <<valid[idx]>>))
                          /\ pc' = IF ok THEN pc ELSE "done"
    /\ UNCHANGED <<options, invocations, retryVars, pipelineVars, diff, files>>

\* one round of the loop over validComments after createReview failed
PostIndividual ==
    /\ pc = "individual"
    /\ LET valid == validComments(files, review.comments)
       IN IF idx > Len(valid)
          THEN pc' = "done" /\ calls' = calls /\ idx' = idx
          ELSE /\ pc' = pc
               /\ idx' = idx + 1
               /\ IF ~HasDiffHunk(files, valid[idx])
                  THEN calls' = calls
                  ELSE \E ok \in BOOLEAN :
                          calls' = Append(calls, Call("pulls.createReviewComment", ok,
                                                      <<>>, <<valid[idx]>>))
    /\ UNCHANGED <<options, invocations, retryVars, pipelineVars, diff, files>>

\* the outer catch: createReviewComment with the summary and every comment
FallbackComment ==
    /\ pc = "fallbackComment"
    /\ \E ok \in BOOLEAN :
          calls' = Append(calls, Call("issues.createComment", ok,
                                      FallbackBody(review.summary, review.comments), <<>>))
    /\ pc' = "done"
    /\ UNCHANGED <<options, invocations, retryVars, pipelineVars, diff, files, idx>>

Next ==
    \/ PrepareReviewContext
    \/ CallClaudeApi
    \/ ExtractJson
    \/ ParseReview
    \/ AlternativeParsing
    \/ ManualFallback
    \/ UltimateFallback
    \/ CatchGeneration
    \/ PostSummary
    \/ GetPullRequest
    \/ ListFiles
    \/ CreateReview
    \/ PostIndividual
    \/ FallbackComment

Spec == Init /\ [][Next]_vars

\* ------------------------------------------- filterReviewComments alone
\* the comment lists handed to filterReviewComments: every labelling of up to
\* MaxFilterLen comments, the line of a comment telling its place in the
\* input, and lists with an unlabelled comment whose body states a severity
FilterInputs ==
    LET FilterPriorities ==
            {Undefined, Str(<<"critical">>), Str(<<"high">>), Str(<<"medium">>),
             Str(<<"low">>)}
        FilterComment(i, body, priority) ==
            [path |-> <<"x">>, line |-> i, body |-> body, priority |-> priority]
        Stated == {<<"priority: high">>, <<"ko: severity: high">>}
    IN UNION {{[i \in 1..n |-> FilterComment(i, <<"y">>, ps[i])] :
                  ps \in [1..n -> FilterPriorities]} : n \in 0..MaxFilterLen}
       \cup {<<FilterComment(1, b, Undefined)>> : b \in Stated}
       \cup {<<FilterComment(1, <<"y">>, Str(<<"medium">>)), FilterComment(2, b, Undefined)>> :
                b \in Stated}

\* the options a ClaudeService is constructed with
FilterOptions ==
    [maxComments : {<<>>} \cup {<<k>> : k \in 0..MaxCommentsOption},
     commentPriority : {"", "all", "medium", "high", "critical"}]

FilterInit ==
    /\ options \in FilterOptions
    /\ pc = "filter"
    /\ parsed \in {[summary |-> Str(<<"x">>), comments |-> cs] : cs \in FilterInputs}
    /\ review = NoReview
    /\ responseText = <<>>
    /\ jsonString = <<>>
    /\ thrown = NoErr
    /\ stages = <<>>
    /\ diff = <<>>
    /\ files = <<>>
    /\ calls = <<>>
    /\ idx = 0
    /\ invocations = <<>>
    /\ maxRetries = 0
    /\ initialDelay = 0
    /\ retries = 0
    /\ delay = 0
    /\ result = Throw(NoErr)

FilterComments ==
    /\ pc = "filter"
    /\ review' = filterReviewComments(parsed, options)
    /\ pc' = "filtered"
    /\ UNCHANGED <<options, invocations, retryVars, responseText, jsonString, thrown, parsed, stages,
                   publisherVars>>

FilterNext == FilterComments

FilterSpec == FilterInit /\ [][FilterNext]_vars

\* ------------------------------- sanitizer, extractor and parser alone
\* the longest text made of escape characters handed to the sanitizer
MaxEscapeLen == 4

\* the top-level fields a response may carry besides summary and comments
ExtraFields ==
    { <<>>,
      <<Field("overview", Quoted(<<"y">>))>>,
      <<Field("overview", Obj(<<Field("summary", Quoted(<<"z">>))>>)),
        Field("priority", <<"1">>)>>,
      <<Field("path", <<"null">>)>> }

\* the texts handed to sanitizeJsonString, extractJsonFromResponse and
\* parseReviewJson on their own
TextInputs ==
    LET \* summary and comments among other top-level fields
        WithExtraFields ==
            {Obj(before \o <<Field("summary", Quoted(<<"x">>)),
                             Field("comments", CommentArray(cs))>> \o after) :
             cs \in CommentLists, before \in ExtraFields, after \in ExtraFields}
        \* array elements of every JSON type, well-formed comments among them
        Elements ==
            {CommentText(KindA), CommentText(KindC), <<"null">>, <<"true">>, <<"1">>,
             Quoted(<<"y">>), Arr(<<>>), Obj(<<>>),
             Obj(<<Field("path", Quoted(<<"x">>)), Field("line", Quoted(<<"1">>)),
                   Field("body", Quoted(<<"y">>))>>),
             Obj(<<Field("path", Quoted(<<"x">>)), Field("line", <<"1">>)>>),
             Obj(<<Field("path", <<"1">>), Field("line", <<"1">>),
                   Field("body", Quoted(<<"y">>))>>)}
        WithElements ==
            {Payload(Quoted(<<"x">>), Arr(es)) :
             es \in UNION {[1..n -> Elements] : n \in 1..2}}
        \* summary and comments of every JSON type, or absent
        Values ==
            {<<>>, Quoted(<<>>), Quoted(<<"x">>), <<"0">>, <<"1">>, <<"null">>, <<"true">>,
             <<"false">>, Arr(<<>>), Obj(<<>>), CommentArray(<<KindA>>)}
        WithValues ==
            {Obj((IF s = <<>> THEN <<>> ELSE <<Field("summary", s)>>)
                 \o (IF c = <<>> THEN <<>> ELSE <<Field("comments", c)>>)) :
             s \in Values, c \in Values}
        \* strings written with the escapes of JSON
        Strings ==
            {<<"x">>, <<"x", BS, QT, "y">>, <<"x", BS, "n", "y">>, <<"x", BS, BS, "y">>,
             <<"x", BS, BS, "n", "y">>, <<"x", BS, "/", "y">>,
             <<"y", ":", BS, "n", "lang", BS, "n", "z">>}
        WithStrings ==
            {Payload(Quoted(s), CommentArray(<<Comment(<<"x">>, <<"1">>, <<>>, b)>>)) :
             s \in Strings, b \in Strings}
        \* runs of the characters the sanitizer looks for
        Escapes ==
            UNION {[1..n -> {BS, QT, BT, "n", "x"}] : n \in 0..MaxEscapeLen}
            \cup { Fence \o <<SP>> \o EscNl \o EscNl \o <<"lang", SP>> \o EscNl \o <<"x">>,
                   Fence \o <<"lang", SP>> \o EscNl \o <<"x">>,
                   <<":">> \o EscNl \o <<"x">> \o EscNl \o EscNl \o <<"y">> \o EscNl
                   \o <<"z">>,
                   <<"x">> \o EscNl \o <<":">> \o EscNl \o <<"lang">> \o EscNl
                   \o <<"y", BS, QT>> }
        \* payloads inside a fence with the json tag, inside a bare fence, alone
        Payloads ==
            {GoodPayload(cs) : cs \in CommentLists}
            \cup {Payload(Quoted(<<"x">>),
                          CommentArray(<<Comment(<<"x">>, <<"1">>, <<>>, b)>>)) :
                  b \in {<<"{", "y", "}">> \o Fence \o <<"z">>,
                         Fence \o <<"{", "y", "}">> \o Fence,
                         <<"y", "}", SP>> \o Fence}}
        InFence ==
            UNION {{Fence \o <<"json", NL>> \o p \o <<NL>> \o Fence,
                    Fence \o <<NL>> \o p \o <<NL>> \o Fence,
                    p} : p \in Payloads}
    IN RawTexts \cup WithExtraFields \cup WithElements \cup WithValues \cup WithStrings
       \cup Escapes \cup InFence

TextInit ==
    /\ responseText \in TextInputs
    /\ pc = "text"
    /\ options = RunOptions([maxComments |-> <<>>, commentPriority |-> ""])
    /\ jsonString = <<>>
    /\ thrown = NoErr
    /\ parsed = NoReview
    /\ review = NoReview
    /\ stages = <<>>
    /\ diff = <<>>
    /\ files = <<>>
    /\ calls = <<>>
    /\ idx = 0
    /\ invocations = <<>>
    /\ maxRetries = 0
    /\ initialDelay = 0
    /\ retries = 0
    /\ delay = 0
    /\ result = Throw(NoErr)

\* sanitizeJsonString(text), and once more on its own result: responseText
\* holds the argument of the last application, jsonString its result
SanitizeText ==
    /\ pc \in {"text", "sanitized"}
    /\ responseText' = IF pc = "text" THEN responseText ELSE jsonString
    /\ jsonString' = sanitizeJsonString(IF pc = "text" THEN responseText ELSE jsonString)
    /\ pc' = IF pc = "text" THEN "sanitized" ELSE "sanitizedTwice"
    /\ UNCHANGED <<options, invocations, retryVars, thrown, parsed, review, stages, publisherVars>>

\* extractJsonFromResponse(text)
ExtractText ==
    /\ pc = "text"
    /\ LET r == extractJsonFromResponse(responseText)
       IN /\ jsonString' = IF r.ok THEN r.val ELSE <<>>
          /\ thrown' = r.err
    /\ pc' = "extracted"
    /\ UNCHANGED <<options, invocations, retryVars, responseText, parsed, review, stages, publisherVars>>

\* parseReviewJson(text)
ParseText ==
    /\ pc = "text"
    /\ LET r == parseReviewJson(responseText)
       IN /\ parsed' = IF r.ok THEN r.val ELSE NoReview
          /\ thrown' = r.err
    /\ pc' = "parsed"
    /\ UNCHANGED <<options, invocations, retryVars, responseText, jsonString, review, stages, publisherVars>>

TextNext == SanitizeText \/ ExtractText \/ ParseText

TextSpec == TextInit /\ [][TextNext]_vars

\* ------------------------------- parseClaudeResponse on one service
\* the most invocations made on one service instance
MaxInvocations == 3

\* parseClaudeResponse with handleParsingFailure: the extractor's exception
\* leaves it, every other failure ends in a fallback tier
parseClaudeResponse(text, opts) ==
    LET Fallback(json, alternative) ==
            IF alternative.ok THEN alternative
            ELSE Return(manualExtractionFallback(json))
        Parsed(json, first) ==
            IF first.ok THEN Return(filterReviewComments(first.val, opts))
            ELSE Fallback(json, alternativeJsonParsing(json))
        Extracted(extracted) ==
            IF ~extracted.ok THEN extracted
            ELSE Parsed(extracted.val, parseReviewJson(extracted.val))
    IN Extracted(extractJsonFromResponse(text))

\* the texts handed to one service: for the structural parser, for each
\* fallback tier, for the terminal fallback, and one without any object
SessionTexts ==
    {GoodPayload(<<KindA, KindC>>),
     GoodPayload(<<KindC, KindA>>),
     TrailingComma(<<KindC>>),
     <<"x", ",", SP>> \o CommentText(KindC),
     <<"{", "x", "}">>,
     <<"x", SP, "y">>}

\* a service as its constructor leaves it: the options, and nothing parsed yet
SessionInit ==
    /\ options \in {RunOptions(i) : i \in ActionInputs}
    /\ pc = "idle"
    /\ invocations = <<>>
    /\ responseText = <<>>
    /\ jsonString = <<>>
    /\ thrown = NoErr
    /\ parsed = NoReview
    /\ review = NoReview
    /\ stages = <<>>
    /\ diff = <<>>
    /\ files = <<>>
    /\ calls = <<>>
    /\ idx = 0
    /\ maxRetries = 0
    /\ initialDelay = 0
    /\ retries = 0
    /\ delay = 0
    /\ result = Throw(NoErr)

\* an invocation that appends to the comments the last invocation returned
InvocationKeepsComments ==
    /\ pc = "idle"
    /\ Len(invocations) < MaxInvocations
    /\ \E text \in SessionTexts :
          LET Kept(last, r) ==
                  IF last.ok /\ r.ok
                  THEN Return([summary |-> r.val.summary,
                               comments |-> last.val.comments \o r.val.comments])
                  ELSE r
              Result(r) ==
                  IF invocations = <<>> THEN r
                  ELSE Kept(invocations[Len(invocations)].result, r)
          IN invocations' = Append(invocations,
                                   [text |-> text,
                                    result |-> Result(parseClaudeResponse(text, options))])
    /\ UNCHANGED <<options, pc, retryVars, pipelineVars, publisherVars>>

\* one invocation of parseClaudeResponse: every regular expression and every
\* list it works on is created inside the call, and the options are only read
Invocation ==
    /\ pc = "idle"
    /\ Len(invocations) < MaxInvocations
    /\ \E text \in SessionTexts :
          invocations' = Append(invocations,
                                [text |-> text,
                                 result |-> parseClaudeResponse(text, options)])
    /\ UNCHANGED <<options, pc, retryVars, pipelineVars, publisherVars>>

SessionNext == Invocation

SessionSpec == SessionInit /\ [][SessionNext]_vars

\* ------------------------------------------------------ retryWithBackoff
\* the largest maxRetries and the largest small initialDelay handed over
MaxRetriesArg == 4
MaxInitialDelay == 2

\* what one call of fn does: it resolves with a value or rejects with an error
FnOutcomes ==
    {Return(Str(<<"v">>)), Throw(Err("first error")), Throw(Err("second error"))}

\* the call, with the arguments of the caller or the defaults 3 and 1000
RetryInit ==
    /\ maxRetries \in (-1)..MaxRetriesArg
    /\ initialDelay \in 0..MaxInitialDelay \cup {1000}
    /\ retries = 0
    /\ delay = initialDelay
    /\ result = Throw(NoErr)
    /\ pc = "attempt"
    /\ calls = <<>>
    /\ options = RunOptions([maxComments |-> <<>>, commentPriority |-> ""])
    /\ invocations = <<>>
    /\ responseText = <<>>
    /\ jsonString = <<>>
    /\ thrown = NoErr
    /\ parsed = NoReview
    /\ review = NoReview
    /\ stages = <<>>
    /\ diff = <<>>
    /\ files = <<>>
    /\ idx = 0

\* an attempt that gives up only once retries exceeds maxRetries
RetryAttemptOneMore ==
    /\ pc = "attempt"
    /\ \E outcome \in FnOutcomes :
          /\ calls' = Append(calls, [api |-> "fn", outcome |-> outcome])
          /\ retries' = IF outcome.ok THEN retries ELSE retries + 1
          /\ result' = IF outcome.ok \/ retries + 1 > maxRetries THEN outcome ELSE result
          /\ pc' = IF outcome.ok THEN "returned"
                   ELSE IF retries + 1 > maxRetries THEN "thrown"
                   ELSE "wait"
    /\ UNCHANGED <<options, invocations, maxRetries, initialDelay, delay, pipelineVars,
                   diff, files, idx>>

\* return await fn(), and the catch block up to the throw
RetryAttempt ==
    /\ pc = "attempt"
    /\ \E outcome \in FnOutcomes :
          /\ calls' = Append(calls, [api |-> "fn", outcome |-> outcome])
          /\ retries' = IF outcome.ok THEN retries ELSE retries + 1
          /\ result' = IF outcome.ok \/ retries + 1 >= maxRetries THEN outcome ELSE result
          /\ pc' = IF outcome.ok THEN "returned"
                   ELSE IF retries + 1 >= maxRetries THEN "thrown"
                   ELSE "wait"
    /\ UNCHANGED <<options, invocations, maxRetries, initialDelay, delay, pipelineVars,
                   diff, files, idx>>

\* the wait of the catch block, then delay *= 2
RetryWait ==
    /\ pc = "wait"
    /\ calls' = Append(calls, [api |-> "setTimeout", ms |-> delay])
    /\ delay' = delay * 2
    /\ pc' = "attempt"
    /\ UNCHANGED <<options, invocations, maxRetries, initialDelay, retries, result,
                   pipelineVars, diff, files, idx>>

RetryNext == RetryAttempt \/ RetryWait

RetrySpec == RetryInit /\ [][RetryNext]_vars

\* ----------------------------------------------------------- properties
PipelinePcs ==
    {"prepare", "callClaudeApi", "extract", "parse", "alternative", "manual",
     "terminal", "catchGeneration"}

\* generateReview has returned: review holds the value handed to the publisher
Returned ==
    pc \notin PipelinePcs \cup {"runFailed", "filter", "filtered", "text", "sanitized",
                                "sanitizedTwice", "extracted", "parsed", "idle",
                                "attempt", "wait", "returned", "thrown"}

LastStage == IF Len(stages) = 0 THEN "none" ELSE stages[Len(stages)]

Attempted(stage) == \E i \in 1..Len(stages) : stages[i] = stage

\* the ordinal of a priority label: critical 3, high 2, medium 1, low and none 0
Ordinal(c) ==
    IF c.priority = Str(<<"critical">>) THEN 3
    ELSE IF c.priority = Str(<<"high">>) THEN 2
    ELSE IF c.priority = Str(<<"medium">>) THEN 1
    ELSE 0

\* the configured limit, 0 when there is none
Limit == IF Len(options.maxComments) > 0 THEN options.maxComments[1] ELSE 0

\* whether the comment lies on a line of a hunk of its file in the diff
DiffValid(c) ==
    /\ Len(c.body) > 0
    /\ c.line > 0
    /\ Len(c.path) > 0
    /\ \E f \in 1..Len(diff) :
          /\ diff[f].filename = c.path
          /\ \E h \in 1..Len(diff[f].hunks) :
                /\ c.line >= diff[f].hunks[h][1]
                /\ c.line <= diff[f].hunks[h][1]
                             + (IF Len(diff[f].hunks[h]) > 1 THEN diff[f].hunks[h][2]
                                ELSE 1) - 1

Annotations == {"pulls.createReview", "pulls.createReviewComment"}

\* the comment objects inside the brackets of the "comments" field of a text
BlockComments(s) ==
    LET In(block) ==
            IF block[1] > 0 /\ block[2] >= block[1]
            THEN ExecComments(SubSeq(s, block[1], block[2]), 1, <<>>)
            ELSE <<>>
    IN In(FindCommentBlock(s, 1))

\* C1: whatever the response text and whatever the model call does, no
\* exception leaves generateReview (the run fails only before the pipeline
\* started), and the value it returns has a summary and a list of comments.
C1_AlwaysReturnsReview ==
    /\ pc = "runFailed" => stages = <<>>
    /\ Returned =>
          /\ thrown = NoErr
          /\ review.summary.t # "undefined"
          /\ DOMAIN review.comments = 1..Len(review.comments)
          /\ \A i \in 1..Len(review.comments) :
                DOMAIN review.comments[i] = {"path", "line", "body", "priority"}

\* C1 witness: a response without any brace made extraction raise, and
\* generateReview returned the generation-error review
C1_ExtractionFailureReturned ==
    /\ pc = "publish"
    /\ stages = <<"generate", "extract", "generationError">>
    /\ review = handleGenerationError(Err(ExtractErrorMessage))

\* C2: a response with no extractable JSON object and no summary or comment a
\* regular expression could match yields the terminal fallback: the "parsing
\* failed completely" summary and no comment.
C2_NoJsonYieldsTerminalFallback ==
    (/\ Returned
     /\ Attempted("extract")
     /\ ~extractJsonFromResponse(responseText).ok
     /\ ~FindSummary(responseText, 1).ok
     /\ Len(ExecComments(responseText, 1, <<>>)) = 0)
    => review = TerminalFallback

\* C3: when the review is one of the three failure results (the terminal
\* fallback, the generation-error result, the unknown-error result), the
\* publisher posts nothing at all.
C3_FailureResultsNotPosted ==
    (Returned /\ LastStage \in {"terminal", "generationError"}) => calls = <<>>

\* C4: after the structural parser raised, Tier 2 is attempted, Tier 3 only
\* after Tier 2 raised, the terminal fallback only after Tier 3 raised; no
\* stage is skipped, and a partial success of Tier 2 (a summary without
\* comments, or comments without a summary) ends the chain with that result.
\* The stages and the result are final once the review is handed over.
C4_TierOrder ==
    pc \in PipelinePcs \cup {"publish"} =>
    /\ \A i \in 1..Len(stages) :
          /\ stages[i] = "alternative" =>
                i > 1 /\ stages[i - 1] = "parse" /\ ~parseReviewJson(jsonString).ok
          /\ stages[i] = "manual" =>
                i > 1 /\ stages[i - 1] = "alternative"
                /\ ~FindSummary(StripControl(jsonString), 1).ok
                /\ Len(BlockComments(StripControl(jsonString))) = 0
          /\ stages[i] = "terminal" =>
                i > 1 /\ stages[i - 1] = "manual" /\ ~ManualExtraction(jsonString).ok
    /\ (pc = "publish" /\ Attempted("parse") /\ ~parseReviewJson(jsonString).ok) =>
          Attempted("alternative")
    /\ (pc = "publish" /\ Attempted("manual") /\ ~ManualExtraction(jsonString).ok) =>
          Attempted("terminal")
    /\ (pc = "publish" /\ Attempted("alternative")
        /\ FindSummary(StripControl(jsonString), 1).ok) =>
          /\ LastStage = "alternative"
          /\ review.summary =
                Str(UnescapeSummary(FindSummary(StripControl(jsonString), 1).val))
    /\ (pc = "publish" /\ LastStage = "alternative"
        /\ ~FindSummary(StripControl(jsonString), 1).ok) =>
          /\ Len(review.comments) > 0
          /\ review.summary = Str(<<FallbackSummary>>)

\* C4 witness: Tier 2 found a summary and no comment, and the chain ended there
C4_PartialSuccessEndsChain ==
    /\ pc = "publish"
    /\ stages = <<"generate", "extract", "parse", "alternative">>
    /\ Len(review.comments) = 0
    /\ review.summary = Str(<<"x">>)

\* C5: Tier 3 reads the original response text: when the stricter stages
\* failed (extraction raising included) and the response text holds a summary
\* or a comment its regular expressions match, the result carries what they
\* match there and is no failure result.
C5_ManualRecoveryReadsRawText ==
    (/\ Returned
     /\ Attempted("extract")
     /\ LastStage \in {"manual", "terminal", "generationError"}
     /\ ManualExtraction(responseText).ok)
    => review = ManualExtraction(responseText).val

\* C6: whichever stage produced the returned review, it has at most
\* maxComments comments when maxComments > 0, and no comment below the
\* configured floor.
C6_ReturnedReviewHonoursFilter ==
    Returned =>
       /\ Limit > 0 => Len(review.comments) <= Limit
       /\ \A i \in 1..Len(review.comments) :
             Ordinal(review.comments[i]) >= getMinPriorityLevel(options.commentPriority)

\* C7: every line annotation, in the batched review or in the per-comment
\* fallback, is a comment of the review with a body, a path and a line > 0
\* that lies inside [start, start + count - 1] of a hunk of its file (count 1
\* when the header has none).
C7_AnnotationsInsideDiff ==
    \A i \in 1..Len(calls) :
       calls[i].api \in Annotations =>
          \A j \in 1..Len(calls[i].comments) :
             /\ DiffValid(calls[i].comments[j])
             /\ \E k \in 1..Len(review.comments) :
                   LineComment(review.comments[k]) = calls[i].comments[j]

\* C7 witness: a batched review that annotates some comment of the review and
\* leaves another out
C7_SomeAnnotatedSomeDropped ==
    \E i \in 1..Len(calls) :
       /\ calls[i].api = "pulls.createReview"
       /\ Len(calls[i].comments) > 0
       /\ Len(calls[i].comments) < Len(review.comments)

\* C8: the limit counts the comments that survived diff validation: with
\* maxComments = k, when at least k parsed comments pass the floor and lie
\* inside the diff, k comments are published as annotations.
C8_LimitCountsDiffValid ==
    (/\ pc = "createReview"
        \/ (pc = "done" /\ Len(calls) > 0
            /\ calls[Len(calls)].api = "pulls.listFiles" /\ calls[Len(calls)].ok)
     /\ LastStage = "parse"
     /\ Limit > 0
     /\ Len(SelectSeq(parsed.comments,
                      LAMBDA c : /\ Ordinal(c) >= getMinPriorityLevel(options.commentPriority)
                                 /\ DiffValid(c))) >= Limit)
    => Len(validComments(files, review.comments)) = Limit

\* C9: the output of filterReviewComments is ordered by non-increasing
\* ordinal, and output comments of equal ordinal keep their input order.
C9_SortedAndStable ==
    pc = "filtered" =>
       \A i \in 1..Len(review.comments) : \A j \in 1..Len(review.comments) :
          i < j =>
             /\ Ordinal(review.comments[i]) >= Ordinal(review.comments[j])
             /\ Ordinal(review.comments[i]) = Ordinal(review.comments[j]) =>
                   review.comments[i].line < review.comments[j].line

\* C9 witness: an output that moved a later comment ahead of two comments of
\* equal ordinal
C9_ReorderedWithTie ==
    /\ pc = "filtered"
    /\ Len(review.comments) = 3
    /\ review.comments[1].line = 3
    /\ Ordinal(review.comments[2]) = Ordinal(review.comments[3])

\* C10: with maxComments = k > 0 and no floor, the output has min(k, n)
\* comments; no dropped comment has a higher ordinal than a kept one, and of
\* two comments of equal ordinal the earlier one is kept.
C10_KeepsTheKHighest ==
    (pc = "filtered" /\ Limit > 0 /\ options.commentPriority \in {"", "all"}) =>
       /\ Len(review.comments)
            = IF Limit < Len(parsed.comments) THEN Limit ELSE Len(parsed.comments)
       /\ \A i \in 1..Len(review.comments) :
             review.comments[i] = parsed.comments[review.comments[i].line]
       /\ \A d \in 1..Len(parsed.comments) : \A i \in 1..Len(review.comments) :
             (\A k \in 1..Len(review.comments) : review.comments[k].line # d) =>
                /\ Ordinal(parsed.comments[d]) <= Ordinal(review.comments[i])
                /\ Ordinal(parsed.comments[d]) = Ordinal(review.comments[i]) =>
                      d > review.comments[i].line

\* C10 witness: a truncation that dropped a comment tied with a kept one
C10_TruncatedWithTie ==
    /\ pc = "filtered"
    /\ Limit = 2
    /\ options.commentPriority = ""
    /\ Len(parsed.comments) = 4
    /\ Len(review.comments) = 2
    /\ Ordinal(review.comments[2]) = Ordinal(parsed.comments[4])
    /\ review.comments[2].line < 4
    /\ review.comments[1].line > review.comments[2].line

\* the comments of the input that reach the configured floor, in input order
PassingFloor ==
    SelectSeq(parsed.comments,
              LAMBDA c : Ordinal(c) >= getMinPriorityLevel(options.commentPriority))

C12_TruncationAfterFloor ==
    (/\ pc = "filtered"
     /\ options.commentPriority # ""
     /\ Limit > 0) =>
       /\ Len(review.comments)
            = IF Limit < Len(PassingFloor) THEN Limit ELSE Len(PassingFloor)
       /\ \A i \in 1..Len(review.comments) :
             /\ Ordinal(review.comments[i]) >= getMinPriorityLevel(options.commentPriority)
             /\ review.comments[i] = parsed.comments[review.comments[i].line]
             /\ \A j \in 1..Len(review.comments) :
                   i < j =>
                      \/ Ordinal(review.comments[i]) > Ordinal(review.comments[j])
                      \/ /\ Ordinal(review.comments[i]) = Ordinal(review.comments[j])
                         /\ review.comments[i].line < review.comments[j].line
       /\ \A d \in 1..Len(PassingFloor) : \A i \in 1..Len(review.comments) :
             (\A k \in 1..Len(review.comments) : review.comments[k] # PassingFloor[d]) =>
                \/ Ordinal(PassingFloor[d]) < Ordinal(review.comments[i])
                \/ /\ Ordinal(PassingFloor[d]) = Ordinal(review.comments[i])
                   /\ PassingFloor[d].line > review.comments[i].line

\* C12 witness: fewer comments than the limit reach the floor, and the one
\* that does stood behind the first k of the input
C12_FewerThanLimitSurvive ==
    /\ pc = "filtered"
    /\ options.commentPriority = "high"
    /\ Limit = 2
    /\ Len(parsed.comments) = 4
    /\ Len(review.comments) = 1
    /\ review.comments[1].line > 2

\* C13: the returned summary is the input summary followed by the note stating
\* N, K and N - K exactly when the output has K < N comments, and the input
\* summary itself when no comment was dropped (an empty list included).
C13_NoteIffDropped ==
    pc = "filtered" =>
       review.summary =
          IF Len(review.comments) < Len(parsed.comments)
          THEN Str(ToStr(parsed.summary)
                   \o <<NL, NL, "_note: ">> \o NumToStr(Len(parsed.comments))
                   \o <<" comments, shown ">> \o NumToStr(Len(review.comments))
                   \o <<". filtered ">>
                   \o NumToStr(Len(parsed.comments) - Len(review.comments))
                   \o <<"._">>)
          ELSE parsed.summary

\* C13 witness: three comments of which one is shown, the note saying so
C13_NoteStatesCounts ==
    /\ pc = "filtered"
    /\ Len(parsed.comments) = 3
    /\ Len(review.comments) = 1
    /\ review.summary # parsed.summary

\* what a plain JSON decode gives for a comment written by CommentText
DecodedComment(c) ==
    [path |-> c.path,
     line |-> ParseInt(c.line),
     priority |-> IF c.priority = <<>> THEN Undefined ELSE Str(c.priority),
     body |-> c.body]

\* the payloads that carry other top-level fields, each with its comments
ExtraFieldPayloads ==
    {[text |-> Obj(before \o <<Field("summary", Quoted(<<"x">>)),
                               Field("comments", CommentArray(cs))>> \o after),
      cs |-> cs] :
     cs \in CommentLists, before \in ExtraFields, after \in ExtraFields}

\* C14: a payload with a summary, a comments array and any other top-level
\* fields before or after them is parsed without failure into a value with
\* the two fields summary and comments only, equal to those of the payload
\* without the other fields.
C14_ExtraFieldsDropped ==
    pc = "parsed" =>
       \A p \in ExtraFieldPayloads :
          responseText = p.text
          => /\ thrown = NoErr
             /\ DOMAIN parsed = {"summary", "comments"}
             /\ parsed.summary = Str(<<"x">>)
             /\ parsed.comments = [i \in 1..Len(p.cs) |-> DecodedComment(p.cs[i])]

\* C14 witness: a payload with two fields before and one after its summary
\* and its two comments has been parsed
C14_ParsedAmongExtraFields ==
    /\ pc = "parsed"
    /\ Len(responseText) > 0
    /\ responseText[2] = QT /\ responseText[3] = "overview"
    /\ \E i \in 1..Len(responseText) : responseText[i] = "priority" /\ responseText[i + 2] = ":"
                                          /\ responseText[i + 3] = "1"
    /\ responseText[Len(responseText) - 1] = "null"
    /\ thrown = NoErr
    /\ Len(parsed.comments) = 2

\* whether a decoded array element has a string path, a numeric line and a
\* string body
WellTyped(e) ==
    Get(e, "path").t = "str" /\ Get(e, "line").t = "num" /\ Get(e, "body").t = "str"

\* the comment the parser is to return for a decoded array element
ExpectedComment(e) ==
    IF WellTyped(e)
    THEN [path |-> Get(e, "path").s, line |-> Get(e, "line").n,
          priority |-> Get(e, "priority"), body |-> Get(e, "body").s]
    ELSE [path |-> <<"unknown">>, line |-> 0, priority |-> Undefined,
          body |-> <<"Error: Invalid comment structure received.">>]

\* the parser returned, for a decoded payload, one comment per array element:
\* the element itself when it is well typed, the placeholder otherwise
ElementsKept(v) ==
    (/\ v.ok
     /\ Get(v.val, "summary").t = "str"
     /\ Len(Get(v.val, "summary").s) > 0
     /\ Get(v.val, "comments").t = "arr")
    => /\ thrown = NoErr
       /\ Len(parsed.comments) = Len(Get(v.val, "comments").a)
       /\ \A i \in 1..Len(parsed.comments) :
             parsed.comments[i] = ExpectedComment(Get(v.val, "comments").a[i])

\* C15: for a payload with a summary and a comments array the parser does not
\* raise and returns one comment per array element, in order: the element
\* when it has a string path, a numeric line and a string body, the
\* placeholder for an element of any other shape or JSON type.
C15_MalformedElementsReplaced ==
    pc = "parsed" => ElementsKept(JsonParse(sanitizeJsonString(responseText)))

\* the parser raised exactly when the decoded value lacks a string summary or
\* an array comments
RaisedIffLacking(v) ==
    v.ok => (thrown # NoErr
             <=> ~(Get(v.val, "summary").t = "str" /\ Get(v.val, "comments").t = "arr"))

\* C16: after a successful decode the parser raises exactly when the decoded
\* value lacks a string summary (the empty string counting as a string) or
\* lacks an array comments.
C16_RaisesIffFieldMissing ==
    pc = "parsed" => RaisedIffLacking(JsonParse(sanitizeJsonString(responseText)))

\* the parser returned what a plain decode v of the payload holds: the same
\* summary and, in order, the same comments
SameAsDecoded(v) ==
    (/\ v.ok
     /\ Get(v.val, "summary").t = "str"
     /\ Get(v.val, "comments").t = "arr"
     /\ \A i \in 1..Len(Get(v.val, "comments").a) : WellTyped(Get(v.val, "comments").a[i]))
    => /\ thrown = NoErr
       /\ parsed.summary = Get(v.val, "summary")
       /\ parsed.comments
            = [i \in 1..Len(Get(v.val, "comments").a) |->
                  ExpectedComment(Get(v.val, "comments").a[i])]

\* C17: for a valid JSON payload with a string summary and well-typed
\* comments, written without any backtick, the parser (sanitize, decode,
\* normalize) returns the summary and the comments of a plain decode of the
\* payload: same order, same path, line, body and priority.
C17_ParserRoundTrip ==
    (pc = "parsed" /\ ~Includes(responseText, BT)) => SameAsDecoded(JsonParse(responseText))

\* the indices of a text where a quote escape or a newline escape starts: a
\* backslash that an even number of backslashes precedes and a quote or an n
\* follows
EscapeStarts(s) ==
    {i \in 1..(Len(s) - 1) :
        /\ s[i] = BS
        /\ s[i + 1] \in {QT, "n"}
        /\ (i - Max({0} \cup {j \in 1..(i - 1) : s[j] # BS}) - 1) % 2 = 0}

\* the quote and newline escapes of a text, in order
StandardEscapes(s) ==
    [k \in 1..Cardinality(EscapeStarts(s)) |->
        s[(CHOOSE p \in EscapeStarts(s) :
              Cardinality({q \in EscapeStarts(s) : q <= p}) = k) + 1]]

\* C18: sanitizeJsonString returns for every text, and the quote escapes and
\* newline escapes of its result are those of its argument, in the same
\* order: none removed, none merged, none made out of another escape.
C18_StandardEscapesUntouched ==
    pc = "sanitized" => StandardEscapes(jsonString) = StandardEscapes(responseText)

\* C19: sanitizing a sanitized text changes nothing.
C19_SanitizeIdempotent ==
    pc = "sanitizedTwice" => jsonString = responseText

\* the extractor returned the text p whenever p is a valid JSON object payload
ExtractedExactly(p) ==
    (/\ Len(p) > 1
     /\ p[1] = "{"
     /\ p[Len(p)] = "}"
     /\ JsonParse(p).ok)
    => (thrown = NoErr /\ jsonString = p)

\* C20: for a valid JSON object payload inside a fence tagged json, inside an
\* untagged fence, or alone, extractJsonFromResponse returns the payload
\* itself: no fence marker, no white space around it, nothing cut off.
C20_ExtractsWholePayload ==
    pc = "extracted" =>
       /\ ExtractedExactly(responseText)
       /\ (/\ Len(responseText) > 9
           /\ SubSeq(responseText, 1, 5) = Fence \o <<"json", NL>>
           /\ SubSeq(responseText, Len(responseText) - 3, Len(responseText))
              = <<NL>> \o Fence)
          => ExtractedExactly(SubSeq(responseText, 6, Len(responseText) - 4))
       /\ (/\ Len(responseText) > 8
           /\ SubSeq(responseText, 1, 4) = Fence \o <<NL>>
           /\ SubSeq(responseText, Len(responseText) - 3, Len(responseText))
              = <<NL>> \o Fence)
          => ExtractedExactly(SubSeq(responseText, 5, Len(responseText) - 4))

\* the indices of a text where a fence tagged json holding an object starts
TaggedFences(s) ==
    {i \in 1..(Len(s) - 3) :
        StartsAt(s, i, Fence) /\ s[i + 3] = "json" /\ MatchFencedObject(s, i)[1] > 0}

\* the indices where a fence holding an object starts, tagged or not
ObjectFences(s) == {i \in 1..Len(s) : MatchFencedObject(s, i)[1] > 0}

\* the object inside the fence that starts at i
FencedObjectAt(s, i) ==
    Trim(SubSeq(s, MatchFencedObject(s, i)[1], MatchFencedObject(s, i)[2]))

\* C21: the extractor returns the object of the first fence tagged json when
\* there is one, wherever untagged fences and bare braces stand; else the
\* object of the first untagged fence; else the span from the first "{" to the
\* last "}"; and it raises exactly when the text holds no such span.
C21_TaggedFenceFirst ==
    pc = "extracted" =>
       /\ TaggedFences(responseText) # {} =>
             /\ thrown = NoErr
             /\ jsonString = FencedObjectAt(responseText, Min(TaggedFences(responseText)))
       /\ (TaggedFences(responseText) = {} /\ ObjectFences(responseText) # {}) =>
             /\ thrown = NoErr
             /\ jsonString = FencedObjectAt(responseText, Min(ObjectFences(responseText)))
       /\ (ObjectFences(responseText) = {} /\ FindBraceSpan(responseText)[1] > 0) =>
             /\ thrown = NoErr
             /\ jsonString = Trim(SubSeq(responseText, FindBraceSpan(responseText)[1],
                                         FindBraceSpan(responseText)[2]))
       /\ thrown # NoErr <=>
             ~\E i \in 1..Len(responseText) : \E j \in (i + 1)..Len(responseText) :
                 responseText[i] = "{" /\ responseText[j] = "}"

\* C22: for a summary that is no failure message, the first call of the
\* publisher posts the summary, every line annotation comes after that call
\* succeeded, and a run that ends with an empty comment list, or with every
\* comment outside the diff, has posted the summary and made no call that
\* creates a review or a line comment.
C22_SummaryBeforeAnnotations ==
    (Returned /\ ~isErrorSummary(review.summary)) =>
       /\ calls # <<>> =>
             /\ calls[1].api = "issues.createComment"
             /\ review.summary.t = "str" =>
                   calls[1].body = <<"# Loxops", NL, NL, "## Overall Assessment", NL, NL>>
                                   \o review.summary.s
       /\ \A i \in 1..Len(calls) : calls[i].api \in Annotations => (i > 1 /\ calls[1].ok)
       /\ (/\ pc = "done"
           /\ \A i \in 1..Len(review.comments) : ~DiffValid(review.comments[i]))
          => /\ calls # <<>>
             /\ \A i \in 1..Len(calls) : calls[i].api \notin Annotations

\* C22 witness: the summary was posted, the diff was listed, every comment of
\* a non-empty list fell outside it, and the run ended there
C22_AllCommentsDropped ==
    /\ pc = "done"
    /\ Len(review.comments) > 0
    /\ Len(calls) = 3
    /\ calls[1].api = "issues.createComment" /\ calls[1].ok
    /\ calls[3].api = "pulls.listFiles" /\ calls[3].ok
    /\ Len(diff) > 0

C25_SeverityTextDetected ==
    pc = "filtered" =>
       \A i \in 1..Len(parsed.comments) :
          (/\ parsed.comments[i].priority = Undefined
           /\ parsed.comments[i].body \in {<<"priority: high">>, <<"ko: severity: high">>})
          => /\ (Limit = 0 /\ options.commentPriority # "critical") =>
                   \E k \in 1..Len(review.comments) :
                      review.comments[k] = parsed.comments[i]
             /\ \A k, m \in 1..Len(review.comments) :
                   (/\ review.comments[k] = parsed.comments[i]
                    /\ review.comments[m].priority = Str(<<"medium">>))
                   => k < m

\* C26: the text sanitizeJsonString returns holds no backslash directly before
\* a backtick, and no body of a comment the parser returns holds one.
C26_NoEscapedBacktickLeft ==
    /\ pc \in {"sanitized", "sanitizedTwice"} =>
          \A i \in 1..(Len(jsonString) - 1) :
             ~(jsonString[i] = BS /\ jsonString[i + 1] = BT)
    /\ (pc = "parsed" /\ thrown = NoErr) =>
          \A k \in 1..Len(parsed.comments) :
             \A i \in 1..(Len(parsed.comments[k].body) - 1) :
                ~(parsed.comments[k].body[i] = BS /\ parsed.comments[k].body[i + 1] = BT)

\* C27: within one createReviewWithComments, whichever calls fail, at most
\* one comment that carries the summary text is posted to the pull request.
C27_SummaryPostedAtMostOnce ==
    review.summary.t = "str" =>
       Cardinality({i \in 1..Len(calls) :
                       /\ calls[i].api = "issues.createComment"
                       /\ calls[i].ok
                       /\ \E j \in 1..Len(calls[i].body) :
                             StartsAt(calls[i].body, j, review.summary.s)}) <= 1

\* the spans of a text that hold an object without an inner brace which
\* decodes to a string path, a non-negative line and a string body
CommentObjectsIn(s) ==
    {span \in {<<i, j>> : i \in 1..Len(s), j \in 1..Len(s)} :
        /\ span[1] < span[2]
        /\ s[span[1]] = "{"
        /\ s[span[2]] = "}"
        /\ \A m \in (span[1] + 1)..(span[2] - 1) : s[m] \notin {"{", "}"}
        /\ JsonParse(SubSeq(s, span[1], span[2])).ok
        /\ WellTyped(JsonParse(SubSeq(s, span[1], span[2])).val)
        /\ Get(JsonParse(SubSeq(s, span[1], span[2])).val, "line").n >= 0}

\* the text a fallback tier scans for comment objects: the brackets of the
\* comments field for the alternative parser, the whole text for the manual one
ScannedText ==
    LET In(s, block) ==
            IF block[1] > 0 /\ block[2] >= block[1] THEN SubSeq(s, block[1], block[2])
            ELSE <<>>
    IN IF LastStage = "alternative"
       THEN In(StripControl(jsonString), FindCommentBlock(StripControl(jsonString), 1))
       ELSE jsonString

\* C28: the review a fallback tier returns holds every well-formed comment
\* object of the text it scanned, with or without a priority field.
C28_EveryCommentObjectRecovered ==
    (Returned /\ LastStage \in {"alternative", "manual"}) =>
       /\ Len(review.comments) >= Cardinality(CommentObjectsIn(ScannedText))
       /\ \A span \in CommentObjectsIn(ScannedText) :
             \E k \in 1..Len(review.comments) :
                /\ Str(review.comments[k].path)
                      = Get(JsonParse(SubSeq(ScannedText, span[1], span[2])).val, "path")
                /\ review.comments[k].line
                      = Get(JsonParse(SubSeq(ScannedText, span[1], span[2])).val, "line").n

\* the individual line comments attempted so far, in order
IndividualCalls == SelectSeq(calls, LAMBDA c : c.api = "pulls.createReviewComment")

\* C29: when the batched review failed, the run ends without an exception
\* after one individual line comment was attempted for every diff-valid
\* comment of the review, in order, whether the attempts before it succeeded
\* or failed, and nothing else was called after the failed review.
C29_EveryValidCommentAttempted ==
    (/\ pc = "done"
     /\ \E i \in 1..Len(calls) : calls[i].api = "pulls.createReview" /\ ~calls[i].ok)
    => /\ thrown = NoErr
       /\ Len(IndividualCalls) = Len(SelectSeq(review.comments, DiffValid))
       /\ \A k \in 1..Len(IndividualCalls) :
             IndividualCalls[k].comments
                = <<LineComment(SelectSeq(review.comments, DiffValid)[k])>>
       /\ \A i \in 1..Len(calls) :
             calls[i].api = "pulls.createReview" =>
                \A j \in (i + 1)..Len(calls) : calls[j].api = "pulls.createReviewComment"

\* C29 witness: the batched review failed, the first individual comment
\* failed too, and a second one was attempted and posted
C29_AttemptAfterFailure ==
    /\ pc = "done"
    /\ Len(IndividualCalls) = 2
    /\ ~IndividualCalls[1].ok
    /\ IndividualCalls[2].ok

FnCalls == SelectSeq(calls, LAMBDA c : c.api = "fn")
Waits == SelectSeq(calls, LAMBDA c : c.api = "setTimeout")

\* C30: retryWithBackoff calls fn at most max(1, maxRetries) times, one wait
\* between two calls, the k-th wait lasting initialDelay * 2^(k-1); it returns
\* the value of the first call that succeeds, and throws the error of the last
\* call once max(1, maxRetries) calls have all failed.
C30_RetryBound ==
    pc \in {"attempt", "wait", "returned", "thrown"} =>
       /\ Len(FnCalls) <= Max({1, maxRetries})
       /\ \A k \in 1..Len(Waits) : Waits[k].ms = initialDelay * 2 ^ (k - 1)
       /\ \A i \in 1..Len(calls) : calls[i].api = (IF i % 2 = 1 THEN "fn" ELSE "setTimeout")
       /\ \A k \in 1..(Len(FnCalls) - 1) : ~FnCalls[k].outcome.ok
       /\ pc \in {"attempt", "wait"} =>
             /\ result = Throw(NoErr)
             /\ \A k \in 1..Len(FnCalls) : ~FnCalls[k].outcome.ok
       /\ pc = "returned" =>
             /\ calls[Len(calls)].api = "fn"
             /\ calls[Len(calls)].outcome.ok
             /\ result = calls[Len(calls)].outcome
       /\ pc = "thrown" =>
             /\ Len(FnCalls) = Max({1, maxRetries})
             /\ calls[Len(calls)].api = "fn"
             /\ ~calls[Len(calls)].outcome.ok
             /\ result = calls[Len(calls)].outcome

\* C30 witness: with the defaults, three calls failed, the last with another
\* error than the first, after waits of 1000 and 2000
C30_ThrownAfterThreeAttempts ==
    /\ pc = "thrown"
    /\ maxRetries = 3
    /\ Len(FnCalls) = 3
    /\ Len(Waits) = 2
    /\ Waits[1].ms = 1000
    /\ Waits[2].ms = 2000
    /\ FnCalls[1].outcome = Throw(Err("first error"))
    /\ result = Throw(Err("second error"))

====
